---- MODULE Spec2Model ----
(***************************************************************************)
(* Path database of Ezkerrox/bsc: the disk layer (triedb/pathdb/           *)
(* disklayer.go) and its write-back buffer (triedb/pathdb/buffer.go).      *)
(*                                                                         *)
(* Every diskLayer instance ever constructed is kept in `layers`; all of   *)
(* them share one buffer, one clean cache and one key-value store, exactly *)
(* as commit and revert hand dl.buffer and dl.nodes to the successor.      *)
(* Node sets, state sets, the state-history writer and the freezer are     *)
(* not part of the sources at hand and are modelled from the design        *)
(* document.                                                               *)
(***************************************************************************)
EXTENDS Integers, Sequences, FiniteSets, TLC

\* ------------------------------------------------------------ bounds
MaxCalls == 3       \* commit, revert, flush and truncation calls in one run
MaxDiffs == 3       \* diff layers stacked above the disk layer
MaxDepth == 2       \* largest depth asked of cap

\* ------------------------------------------------------------ values
None == -1                       \* "no entry" in a map, nil
Blobs == {0, 1, 2}               \* node blobs; 0 is the empty blob, a deletion marker
StBlobs == {0, 1}                \* account / slot blobs; 0 is the empty blob
Roots == {0, 1}                  \* state roots, 0 is the root of the empty state
\* (owner, path): owner 0 is the account trie, any other a storage trie
Keys == {<<0, 1>>, <<1, 1>>}
Accts == {1}
Slots == {<<1, 1>>}

VARIABLES
    layers,     \* Seq of [root, id, stale]: every diskLayer instance
    buffer,     \* the shared buffer: [layers, nodes, accounts, storages]
    clean,      \* the shared clean cache (fastcache), None per key when absent
    kv,         \* trie nodes of the key-value store, 0 when absent
    psid,       \* rawdb persistentStateID
    stateIDs,   \* rawdb root -> state id lookups
    freezer,    \* state-history log: [tail, items, synced]
    config,     \* [freezer, StateHistory, limit, cleanCache]
    last,       \* outcome of the most recent mutating call
    calls,      \* number of mutating calls made so far
    tree,       \* the diff layers above the disk layer and the cap in progress
    pf,         \* the trie prefetcher, its goroutines and its caller
    pz,         \* the pruned freezer and its callers
    pool        \* the vote pool, its loop and the chain it reads

vars == <<layers, buffer, clean, kv, psid, stateIDs, freezer, config, last,
          calls, tree, pf, pz, pool>>

\* ------------------------------------------------------------ containers
RECURSIVE SumOver(_, _)
SumOver(f, S) ==
    IF S = {} THEN 0
    ELSE LET x == CHOOSE y \in S : TRUE IN f[x] + SumOver(f, S \ {x})

EmptyMap(D) == [k \in D |-> None]

\* nodeSet.merge / stateSet.merge: newer entries win, deletion markers kept
Merge(base, delta) ==
    [k \in DOMAIN base |-> IF delta[k] # None THEN delta[k] ELSE base[k]]

\* size of a map: len(path) + len(blob) per entry, a path being one unit
MapSize(m) ==
    SumOver([k \in DOMAIN m |-> IF m[k] = None THEN 0 ELSE 1 + m[k]], DOMAIN m)

EmptyBuffer == [layers |-> 0, nodes |-> EmptyMap(Keys),
                accounts |-> EmptyMap(Accts), storages |-> EmptyMap(Slots)]

\* buffer.size
size(b) == MapSize(b.accounts) + MapSize(b.storages) + MapSize(b.nodes)

\* buffer.full
full(b) == size(b) > config.limit

\* buffer.empty
empty(b) == b.layers = 0

\* buffer.reset
resetLayersOnly(b) == [b EXCEPT !.layers = 0]
reset(b) == EmptyBuffer

\* buffer.commit
BufferCommitUncounted(b, nodes, accounts, storages) ==
    [layers |-> b.layers,
     nodes |-> Merge(b.nodes, nodes),
     accounts |-> Merge(b.accounts, accounts),
     storages |-> Merge(b.storages, storages)]
BufferCommit(b, nodes, accounts, storages) ==
    [layers |-> b.layers + 1,
     nodes |-> Merge(b.nodes, nodes),
     accounts |-> Merge(b.accounts, accounts),
     storages |-> Merge(b.storages, storages)]

\* ------------------------------------------------------------ freezer
FreezerHead(f) == f.tail + Len(f.items)

HasHistory(f, id) == f.tail < id /\ id <= FreezerHead(f)

ReadHistory(f, id) == f.items[id - f.tail]

\* truncateFromTail(db, freezer, ntail): drop the records up to id ntail
truncateFromTail(f, ntail) ==
    IF ntail <= f.tail THEN f
    ELSE IF ntail >= FreezerHead(f)
    THEN [f EXCEPT !.tail = FreezerHead(f), !.items = <<>>]
    ELSE [f EXCEPT !.tail = ntail,
                   !.items = SubSeq(@, ntail - f.tail + 1, Len(@))]

\* truncateFromHead(db, freezer, nhead): drop the records above id nhead
truncateFromHead(f, nhead) ==
    IF nhead >= FreezerHead(f) THEN f
    ELSE IF nhead <= f.tail
    THEN [f EXCEPT !.items = <<>>, !.synced = IF @ > f.tail THEN f.tail ELSE @]
    ELSE [f EXCEPT !.items = SubSeq(@, 1, nhead - f.tail),
                   !.synced = IF @ > nhead THEN nhead ELSE @]

\* nodeSet.write(batch, clean): the batch effect on the key-value store
WriteNodesKV(store, nodes) ==
    [k \in Keys |-> IF nodes[k] # None THEN nodes[k] ELSE store[k]]

\* nodeSet.write(batch, clean): the effect on the clean cache
WriteNodesClean(cache, nodes) ==
    IF ~config.cleanCache THEN cache
    ELSE [k \in Keys |-> IF nodes[k] = None THEN cache[k]
                         ELSE IF nodes[k] = 0 THEN None ELSE nodes[k]]

\* ------------------------------------------------------------ buffer.flush
\* The outcome of b.flush(db, freezer, clean, id, force); io names the
\* step of this call whose I/O fails, if any.
FlushResult(err, flushed, b, store, ps, cache, frz) ==
    [err |-> err, flushed |-> flushed, buffer |-> b, kv |-> store,
     psid |-> ps, clean |-> cache, freezer |-> frz]

\* buffer.flush returns at once unless the buffer is full or force is set
FlushSkipsNever(b, force) == FALSE
FlushSkipsUnlessForced(b, force) == ~force
FlushSkips(b, force) == ~full(b) /\ ~force

\* buffer.flush: the target state id is aligned with the internal counter
AlignedAlways(ps, b, id) == TRUE
Aligned(ps, b, id) == ps + b.layers = id

\* buffer.flush syncs the freezer, when there is one, before it writes
FlushNotSynced(frz) == frz
FlushSynced(frz) ==
    IF config.freezer THEN [frz EXCEPT !.synced = FreezerHead(frz)] ELSE frz

flush(b, store, ps, cache, frz, id, force, io) ==
    IF FlushSkips(b, force)
    THEN FlushResult("nil", FALSE, b, store, ps, cache, frz)
    ELSE IF ~Aligned(ps, b, id)
    THEN FlushResult("alignment", FALSE, b, store, ps, cache, frz)
    ELSE IF config.freezer /\ io = "sync"
    THEN FlushResult("syncErr", FALSE, b, store, ps, cache, frz)
    ELSE LET frz1 == FlushSynced(frz)
             cache1 == WriteNodesClean(cache, b.nodes)
         IN IF io = "batch"
            THEN FlushResult("batchErr", FALSE, b, store, ps, cache1, frz1)
            ELSE FlushResult("nil", TRUE, reset(b),
                             WriteNodesKV(store, b.nodes), id, cache1, frz1)

\* ------------------------------------------------------------ call records
\* What the model remembers of the most recent mutating call: its receiver
\* (layer, and pre: the receiver and buffer.layers before the call), its
\* arguments (id, force, h), what flush met on entry (full, bnodes: the
\* buffered nodes), and its outcome (err, new: the instance returned,
\* flushed). rt is set by a revert that directly undoes the commit before it.
NoRT == [is |-> FALSE, root |-> 0, id |-> 0, layers |-> 0, flushed |-> FALSE]

NoHistory == [id |-> 0, parent |-> 0, root |-> 0, nodes |-> EmptyMap(Keys),
              accounts |-> EmptyMap(Accts), storages |-> EmptyMap(Slots)]

Call(op, l, err) ==
    [op |-> op, layer |-> l, err |-> err,
     new |-> 0, flushed |-> FALSE, id |-> 0, force |-> FALSE,
     full |-> FALSE, bnodes |-> EmptyMap(Keys),
     pre |-> [root |-> 0, id |-> 0, layers |-> 0, stale |-> FALSE],
     rt |-> NoRT, h |-> NoHistory]

\* newDiskLayer(root, id, db, nodes, buffer): cache and buffer are the
\* shared ones
newDiskLayerParentID(root, id) == [root |-> root, id |-> id - 1, stale |-> FALSE]
newDiskLayer(root, id) == [root |-> root, id |-> id, stale |-> FALSE]

\* ------------------------------------------------------------ reads
Result(err, val, loc) == [err |-> err, val |-> val, loc |-> loc]

\* diskLayer.node: what the call returns
NodeResultBufferFirst(l, k) ==
    IF buffer.nodes[k] # None THEN Result("nil", buffer.nodes[k], "dirty")
    ELSE IF layers[l].stale THEN Result("errSnapshotStale", None, "none")
    ELSE Result("nil", kv[k], "disk")
NodeResultCleanFirst(l, k) ==
    IF layers[l].stale THEN Result("errSnapshotStale", None, "none")
    ELSE IF config.cleanCache /\ clean[k] # None /\ clean[k] > 0
    THEN Result("nil", clean[k], "clean")
    ELSE IF buffer.nodes[k] # None THEN Result("nil", buffer.nodes[k], "dirty")
    ELSE Result("nil", kv[k], "disk")
NodeResult(l, k) ==
    IF layers[l].stale THEN Result("errSnapshotStale", None, "none")
    ELSE IF buffer.nodes[k] # None THEN Result("nil", buffer.nodes[k], "dirty")
    ELSE IF config.cleanCache /\ clean[k] # None /\ clean[k] > 0
    THEN Result("nil", clean[k], "clean")
    ELSE Result("nil", kv[k], "disk")

\* diskLayer.node: what the call changes, the back-fill of the clean cache
Node(l, k) ==
    /\ clean' = IF /\ NodeResult(l, k).loc = "disk"
                   /\ config.cleanCache /\ kv[k] > 0
                THEN [clean EXCEPT ![k] = kv[k]] ELSE clean
    /\ UNCHANGED <<layers, buffer, kv, psid, stateIDs, freezer, config, last, calls,
                   pf, pz, pool>>

\* diskLayer.resetCache
resetCache(l) ==
    /\ clean' = IF ~layers[l].stale /\ config.cleanCache
                THEN EmptyMap(Keys) ELSE clean
    /\ UNCHANGED <<layers, buffer, kv, psid, stateIDs, freezer, config, last, calls,
                   pf, pz, pool>>

\* diskLayer.account: what the call returns
AccountResult(l, a) ==
    IF layers[l].stale THEN Result("errSnapshotStale", None, "none")
    ELSE IF buffer.accounts[a] # None
    THEN Result("nil", buffer.accounts[a], "dirty")
    ELSE Result("notSupported", None, "none")

\* diskLayer.storage: what the call returns
StorageResult(l, x) ==
    IF layers[l].stale THEN Result("errSnapshotStale", None, "none")
    ELSE IF buffer.storages[x] # None
    THEN Result("nil", buffer.storages[x], "dirty")
    ELSE Result("notSupported", None, "none")

\* ------------------------------------------------------------ diff layers
\* The bottom-most diff layers a caller may hand to commit on top of dl:
\* newDiffLayer(dl, root, dl.id + 1, nodes, states).
\* The node and state sets of the diffs explored: a diff changes the root,
\* hence at least one node. Between them they write, overwrite and delete
\* an account-trie node, write a storage-trie node, and write and delete
\* an account and a slot.
Diff(k, blob, accts, slots) ==
    [nodes |-> [x \in Keys |-> IF x = k THEN blob ELSE None],
     accounts |-> [a \in Accts |-> accts], storages |-> [x \in Slots |-> slots]]
Diffs == {Diff(<<0, 1>>, 1, 1, None), Diff(<<0, 1>>, 2, None, 1),
          Diff(<<0, 1>>, 0, 0, None), Diff(<<1, 1>>, 1, None, 0)}

\* The value of node k below a diff layer whose parent is the disk layer.
NodeBelow(k) == IF buffer.nodes[k] # None THEN buffer.nodes[k] ELSE kv[k]

\* writeHistory: the record of the transition made by bottom. Its account
\* and slot pre-images come from the diff's origin set; nodes holds, for
\* every node the diff modifies, the node apply() rebuilds for the parent
\* state.
History(dl, bottom) ==
    [id |-> bottom.id, parent |-> dl.root, root |-> bottom.root,
     nodes |-> [k \in Keys |-> IF bottom.nodes[k] = None THEN None
                               ELSE NodeBelow(k)],
     accounts |-> bottom.accountOrigin,
     storages |-> bottom.storageOrigin]

\* The pre-images a diff carries in its origin set: the buffered blob of
\* every entry it modifies, the empty blob for an entry the buffer does not
\* hold (this code keeps no flat state below the buffer).
Origin(delta, held) ==
    [k \in DOMAIN delta |-> IF delta[k] = None THEN None
                            ELSE IF held[k] # None THEN held[k] ELSE 0]

\* ------------------------------------------------------------ diskLayer.commit
\* The retention test of commit: the history of state id exceeds the limit
Overflow(limit, id, tail) == limit # 0 /\ id - tail > limit

\* The id of the oldest history kept after the truncation
OldestRetainedOffByOne(id, limit) == id - limit
OldestRetained(id, limit) == id - limit + 1

\* commit forces the flush when the persisted state is older than the
\* oldest history it is about to keep
ForceFlushAsAsked(force, ps, oldest) == force
ForceFlush(force, ps, oldest) == force \/ ps < oldest

CommitFailStale(l, err, frz, pre) ==
    /\ last' = [Call("commit", l, err) EXCEPT !.pre = pre]
    /\ freezer' = frz
    /\ layers' = [layers EXCEPT ![l].stale = TRUE]
    /\ UNCHANGED <<buffer, clean, kv, psid, stateIDs>>
CommitFail(l, err, frz, pre) ==
    /\ last' = [Call("commit", l, err) EXCEPT !.pre = pre]
    /\ freezer' = frz
    /\ UNCHANGED <<layers, buffer, clean, kv, psid, stateIDs>>

Commit(l, bottom, force, io) ==
    LET dl == layers[l]
        pre == [root |-> dl.root, id |-> dl.id, layers |-> buffer.layers,
                stale |-> dl.stale]
        frz1 == IF config.freezer
                THEN [freezer EXCEPT !.items = Append(@, History(dl, bottom))]
                ELSE freezer
        limit == config.StateHistory
        overflow == config.freezer /\ Overflow(limit, bottom.id, frz1.tail)
        oldest == IF overflow THEN OldestRetained(bottom.id, limit) ELSE 0
        force1 == ForceFlush(force, psid, oldest)
        combined == BufferCommit(buffer, bottom.nodes, bottom.accounts,
                                 bottom.storages)
        r == flush(combined, kv, psid, clean, frz1, bottom.id, force1, io)
        ids1 == IF dl.id = 0 THEN [stateIDs EXCEPT ![dl.root] = 0] ELSE stateIDs
        ids2 == [ids1 EXCEPT ![bottom.root] = bottom.id]
        stale1 == [layers EXCEPT ![l].stale = TRUE]
        call == [Call("commit", l, r.err) EXCEPT
                    !.pre = pre, !.id = bottom.id, !.force = force1,
                    !.full = full(combined), !.bnodes = combined.nodes,
                    !.flushed = r.flushed]
    IN
    /\ calls < MaxCalls
    /\ calls' = calls + 1
    /\ UNCHANGED <<config, pf, pz, pool>>
    /\ IF config.freezer /\ (io = "writeHistory" \/ bottom.id # FreezerHead(freezer) + 1)
       THEN CommitFail(l, "historyErr", freezer, pre)
       ELSE IF config.freezer /\ io = "tail"
       THEN CommitFail(l, "tailErr", frz1, pre)
       ELSE /\ stateIDs' = ids2
            /\ buffer' = r.buffer
            /\ kv' = r.kv
            /\ psid' = r.psid
            /\ clean' = r.clean
            /\ IF r.err # "nil"
               THEN /\ layers' = stale1
                    /\ freezer' = r.freezer
                    /\ last' = call
               ELSE IF overflow /\ io = "truncate"
               THEN /\ layers' = stale1
                    /\ freezer' = r.freezer
                    /\ last' = [call EXCEPT !.err = "truncateErr"]
               ELSE /\ layers' = Append(stale1, newDiskLayer(bottom.root, bottom.id))
                    /\ freezer' = IF overflow
                                  THEN truncateFromTail(r.freezer, oldest - 1)
                                  ELSE r.freezer
                    /\ last' = [call EXCEPT !.new = Len(layers) + 1]
    /\ io # "none" => last'.err # "nil"

\* ------------------------------------------------------------ buffer.revertTo
\* nodeSet.revertTo / stateSet.revertTo: the reverse values overwrite
RevertMap(held, reverse) ==
    [k \in DOMAIN held |-> IF reverse[k] # None THEN reverse[k] ELSE held[k]]

RevertToResult(err, b) == [err |-> err, buffer |-> b]

revertToKeepsLayers(b, nodes, accounts, storages) ==
    RevertToResult("nil", [b EXCEPT !.nodes = RevertMap(b.nodes, nodes)])

revertToNoZeroCheck(b, nodes, accounts, storages) ==
    IF b.layers - 1 = 0 THEN RevertToResult("nil", reset(b))
    ELSE RevertToResult("nil", [b EXCEPT !.layers = b.layers - 1,
                                         !.nodes = RevertMap(b.nodes, nodes)])

revertToNoReset(b, nodes, accounts, storages) ==
    IF b.layers = 0 THEN RevertToResult("errStateUnrecoverable", b)
    ELSE RevertToResult("nil", [b EXCEPT !.layers = b.layers - 1,
                                         !.nodes = RevertMap(b.nodes, nodes)])

revertTo(b, nodes, accounts, storages) ==
    IF b.layers = 0 THEN RevertToResult("errStateUnrecoverable", b)
    ELSE IF b.layers - 1 = 0 THEN RevertToResult("nil", reset(b))
    ELSE LET hasStates == \/ \E a \in Accts : b.accounts[a] # None
                          \/ \E x \in Slots : b.storages[x] # None
         IN RevertToResult("nil",
                [layers |-> b.layers - 1,
                 nodes |-> RevertMap(b.nodes, nodes),
                 accounts |-> IF hasStates THEN RevertMap(b.accounts, accounts)
                              ELSE b.accounts,
                 storages |-> IF hasStates THEN RevertMap(b.storages, storages)
                              ELSE b.storages])

\* apply(db, parent, root, accounts, storages): the nodes that turn the trie
\* of h.root back into the trie of h.parent. It reads the state through
\* "this" layer, so it fails on a stale one.
ApplyFails(dl, io) == dl.stale \/ io = "apply"

\* ------------------------------------------------------------ diskLayer.revert
\* The checks revert makes before it touches anything.
RevertCheckNoZero(dl, h) ==
    IF h.root # dl.root THEN "errUnexpectedHistory" ELSE "nil"
RevertCheck(dl, h) ==
    IF h.root # dl.root THEN "errUnexpectedHistory"
    ELSE IF dl.id = 0 THEN "errStateUnrecoverable"
    ELSE "nil"

\* The state id of the reverted disk layer, also written as persistentStateID
RevertedIDSame(dl) == dl.id
RevertedID(dl) == dl.id - 1

RevertFail(l, h, err, pre) ==
    /\ last' = [Call("revert", l, err) EXCEPT !.pre = pre, !.h = h]
    /\ UNCHANGED <<layers, buffer, clean, kv, psid>>

Revert(l, h, io) ==
    LET dl == layers[l]
        pre == [root |-> dl.root, id |-> dl.id, layers |-> buffer.layers,
                stale |-> dl.stale]
        r == revertTo(buffer, h.nodes, h.accounts, h.storages)
        rt == IF /\ last.op = "commit" /\ last.err = "nil" /\ last.new = l
                 /\ HasHistory(freezer, dl.id) /\ h = ReadHistory(freezer, dl.id)
              THEN [is |-> TRUE, root |-> last.pre.root, id |-> last.pre.id,
                    layers |-> last.pre.layers, flushed |-> last.flushed]
              ELSE NoRT
        ok == [Call("revert", l, "nil") EXCEPT
                  !.pre = pre, !.new = Len(layers) + 1, !.rt = rt, !.h = h]
        ndl == newDiskLayer(h.parent, RevertedID(dl))
    IN
    /\ calls < MaxCalls
    /\ calls' = calls + 1
    /\ UNCHANGED <<stateIDs, freezer, config, pf, pz, pool>>
    /\ IF RevertCheck(dl, h) # "nil" THEN RevertFail(l, h, RevertCheck(dl, h), pre)
       ELSE IF ApplyFails(dl, io) THEN RevertFail(l, h, "applyErr", pre)
       ELSE IF ~empty(buffer)
       THEN IF r.err # "nil"
            THEN /\ layers' = [layers EXCEPT ![l].stale = TRUE]
                 /\ last' = [Call("revert", l, r.err) EXCEPT !.pre = pre, !.h = h]
                 /\ UNCHANGED <<buffer, clean, kv, psid>>
            ELSE /\ layers' = Append([layers EXCEPT ![l].stale = TRUE], ndl)
                 /\ buffer' = r.buffer
                 /\ last' = ok
                 /\ UNCHANGED <<clean, kv, psid>>
       ELSE /\ layers' = Append([layers EXCEPT ![l].stale = TRUE], ndl)
            /\ kv' = WriteNodesKV(kv, h.nodes)
            /\ clean' = WriteNodesClean(clean, h.nodes)
            /\ psid' = RevertedID(dl)
            /\ last' = ok
            /\ UNCHANGED buffer
    /\ io # "none" => last'.err = "applyErr"

\* ------------------------------------------------------------ other callers
\* b.flush called on its own (a forced flush of the live buffer)
Flush(id, force, io) ==
    LET r == flush(buffer, kv, psid, clean, freezer, id, force, io)
    IN /\ calls < MaxCalls
       /\ calls' = calls + 1
       /\ buffer' = r.buffer
       /\ kv' = r.kv
       /\ psid' = r.psid
       /\ clean' = r.clean
       /\ freezer' = r.freezer
       /\ last' = [Call("flush", 0, r.err) EXCEPT
                      !.id = id, !.force = force, !.flushed = r.flushed,
                      !.full = full(buffer), !.bnodes = buffer.nodes,
                      !.pre.layers = buffer.layers]
       /\ io # "none" => r.err # "nil"
       /\ UNCHANGED <<layers, stateIDs, config, pf, pz, pool>>

\* Recovery ends by dropping the histories above the recovered disk layer,
\* which is the instance constructed last.
TruncateHead ==
    LET dl == layers[Len(layers)]
    IN /\ calls < MaxCalls
       /\ calls' = calls + 1
       /\ config.freezer
       /\ ~dl.stale
       /\ FreezerHead(freezer) > dl.id
       /\ freezer' = truncateFromHead(freezer, dl.id)
       /\ last' = [Call("truncateHead", Len(layers), "nil") EXCEPT !.id = dl.id]
       /\ UNCHANGED <<layers, buffer, clean, kv, psid, stateIDs, config, tree,
                      pf, pz, pool>>

\* ------------------------------------------------------------ layer tree
\* The diff layers above the disk layer, bottom-most first, and the cap in
\* progress: pc is "capping" while cap(d) runs; n and base are the number
\* of diff layers and the disk layer's id when it started; done says that
\* the last cap returned without error and nothing was added since.
EmptyTree == [diffs |-> <<>>, pc |-> "idle", d |-> 0, n |-> 0, base |-> 0,
              done |-> FALSE]

\* The disk layer the tree refers to
Live == Len(layers)

\* The diff layer given to commit: its origin set holds the pre-images in
\* the state below it.
Bottom(root, id, d) ==
    [root |-> root, id |-> id, nodes |-> d.nodes,
     accounts |-> d.accounts, storages |-> d.storages,
     accountOrigin |-> Origin(d.accounts, buffer.accounts),
     storageOrigin |-> Origin(d.storages, buffer.storages)]

\* diskLayer.update / add-child: a new diff layer on top of the chain
Update(root, d) ==
    LET top == IF tree.diffs = <<>> THEN layers[Live]
               ELSE tree.diffs[Len(tree.diffs)]
    IN /\ tree.pc = "idle"
       /\ Len(tree.diffs) < MaxDiffs
       /\ root # top.root
       /\ tree' = [tree EXCEPT
                      !.diffs = Append(@, [root |-> root, id |-> top.id + 1,
                                           diff |-> d]),
                      !.done = FALSE]
       /\ UNCHANGED <<layers, buffer, clean, kv, psid, stateIDs, freezer,
                      config, last, calls, pf, pz, pool>>

\* cap(depth) takes the tree's lock
CapStart(d) ==
    /\ tree.pc = "idle"
    /\ tree' = [tree EXCEPT !.pc = "capping", !.d = d, !.n = Len(tree.diffs),
                            !.base = layers[Live].id, !.done = FALSE]
    /\ UNCHANGED <<layers, buffer, clean, kv, psid, stateIDs, freezer,
                   config, last, calls, pf, pz, pool>>

\* cap(depth): one turn of the loop. While more than depth diff layers are
\* left, the bottom-most is committed with force = false and dropped, and
\* the tree refers to the disk layer returned.
CapStep ==
    /\ tree.pc = "capping"
    /\ IF Len(tree.diffs) > tree.d
       THEN LET b == tree.diffs[1]
            IN /\ Commit(Live, Bottom(b.root, b.id, b.diff), FALSE, "none")
               /\ tree' = IF last'.err = "nil"
                          THEN [tree EXCEPT !.diffs = Tail(@)]
                          ELSE [tree EXCEPT !.pc = "idle"]
       ELSE /\ tree' = [tree EXCEPT !.pc = "idle", !.done = TRUE]
            /\ UNCHANGED <<layers, buffer, clean, kv, psid, stateIDs, freezer,
                           config, last, calls, pf, pz, pool>>

\* ------------------------------------------------------------ trie prefetcher
\* One active triePrefetcher with its mainLoop goroutine, one goroutine per
\* subfetcher and per parallel child, and the single caller of its API (the
\* API is not thread safe). Keys are numbers; a trie is the set of keys
\* resolved in it. Verkle mode is off, so a trie id is (owner, root).
abortChanSize == 64
concurrentChanSize == 10
parallelTriePrefetchThreshold == 10
parallelTriePrefetchCapacity == 20

MaxOps == 3                      \* API calls made by the caller
MaxBig == 2                      \* of them, prefetches over the threshold

AccountTrie == <<0, 1>>          \* owner zero, root = the prefetcher's root
StorageTrie == <<1, 2>>
IsAccountTrie(id, root) == id[2] = root

NilTrie == [nil |-> TRUE, keys |-> {}]
OpenedTrie == [nil |-> FALSE, keys |-> {}]
Range(s) == {s[i] : i \in DOMAIN s}
\* keys[from:to] of a Go slice
Slice(keys, from, to) == SubSeq(keys, from + 1, to)
Reads(sf, k) == Cardinality({i \in DOMAIN sf.loads : sf.loads[i] = k})

\* newSubfetcher: the goroutine is started and has not opened the trie yet.
\* loads lists the backend reads (GetAccount/GetStorage) made, late counts
\* those completed after stop was closed, sched the keys ever scheduled.
newSubfetcher ==
    [trie |-> NilTrie, tasks |-> <<>>, run |-> <<>>, pc |-> "open",
     wake |-> FALSE, stop |-> FALSE, seen |-> {}, dups |-> 0, used |-> {},
     pendingSize |-> 0, paraChildren |-> <<>>, loads |-> <<>>, late |-> 0,
     sched |-> 0]

\* subfetcher.schedule: pendingSize is raised and the keys are appended
\* under the lock; then the wake is sent unless one is waiting already
scheduleAppend(sf, keys) ==
    [sf EXCEPT !.pendingSize = @ + Len(keys), !.tasks = @ \o keys,
               !.sched = @ + Len(keys)]
scheduleWake(sf) == [sf EXCEPT !.wake = TRUE]
schedule(sf, keys) == scheduleWake(scheduleAppend(sf, keys))

\* subfetcher.abort: close(stop) unless it is closed already
abort(sf) == [sf EXCEPT !.stop = TRUE]
\* the abort of a subfetcher and of its children, as mainLoop does it
abortAll(sf) ==
    [abort(sf) EXCEPT !.paraChildren = [i \in DOMAIN @ |-> abort(@[i])]]

\* scheduleParallel, first loop: the children that are not full are fed,
\* starting at child len(keys) % childrenNum
RECURSIVE Feed(_, _, _, _, _)
Feed(children, keys, keyIndex, childIndex, i) ==
    LET child == children[childIndex + 1]
        next == (childIndex + 1) % Len(children)
        feedNum == parallelTriePrefetchCapacity - child.pendingSize
    IN IF i >= Len(children)
       THEN [children |-> children, keyIndex |-> keyIndex, done |-> FALSE]
       ELSE IF child.pendingSize >= parallelTriePrefetchCapacity
       THEN Feed(children, keys, keyIndex, next, i + 1)
       ELSE IF keyIndex + feedNum >= Len(keys)
       THEN [children |-> [children EXCEPT ![childIndex + 1] =
                              schedule(@, Slice(keys, keyIndex, Len(keys)))],
             keyIndex |-> Len(keys), done |-> TRUE]
       ELSE Feed([children EXCEPT ![childIndex + 1] =
                     schedule(@, Slice(keys, keyIndex, keyIndex + feedNum))],
                 keys, keyIndex + feedNum, next, i + 1)

\* scheduleParallel, second loop: one new child per capacity keys left
RECURSIVE Spawn(_, _, _)
Spawn(children, keysLeft, i) ==
    LET from == i * parallelTriePrefetchCapacity
        endIndex == (i + 1) * parallelTriePrefetchCapacity
    IN IF ~(from < Len(keysLeft)) THEN children
       ELSE IF endIndex >= Len(keysLeft)
       THEN Append(children,
                   schedule(newSubfetcher, Slice(keysLeft, from, Len(keysLeft))))
       ELSE Spawn(Append(children,
                         schedule(newSubfetcher, Slice(keysLeft, from, endIndex))),
                  keysLeft, i + 1)

scheduleParallelOneChild(sf, keys) ==
    [sf EXCEPT !.paraChildren =
           Append(@, schedule(newSubfetcher, keys))]
scheduleParallel(sf, keys) ==
    LET fed == IF Len(sf.paraChildren) > 0
               THEN Feed(sf.paraChildren, keys, 0,
                         Len(keys) % Len(sf.paraChildren), 0)
               ELSE [children |-> <<>>, keyIndex |-> 0, done |-> FALSE]
    IN [sf EXCEPT !.paraChildren =
           IF fed.done THEN fed.children
           ELSE Spawn(fed.children, Slice(keys, fed.keyIndex, Len(keys)), 0)]

\* mainLoop: parallel prefetch only above the threshold
OverThresholdAlways(pending) == TRUE
OverThreshold(pending) == pending > parallelTriePrefetchThreshold

\* ---- subfetcher.loop, one step each
\* openTrie at the start of loop: on an error loop returns and term is closed
loopOpenIgnoresError(sf, ok) == [sf EXCEPT !.pc = "idle"]
loopOpen(sf, ok) ==
    IF ok THEN [sf EXCEPT !.trie = OpenedTrie, !.pc = "idle"]
    ELSE [sf EXCEPT !.pc = "term"]

\* case <-sf.wake: the queue is taken and the for loop over it is entered
loopWake(sf) ==
    [sf EXCEPT !.wake = FALSE, !.run = sf.tasks, !.tasks = <<>>,
               !.pc = IF sf.tasks = <<>> THEN "idle" ELSE "run"]

\* case <-sf.stop, at either select: what is left goes back to the queue
loopStopKeepsWaiting(sf) ==
    [sf EXCEPT !.tasks = @ \o sf.run, !.run = <<>>, !.pc = "idle"]
loopStop(sf) ==
    [sf EXCEPT !.tasks = @ \o sf.run, !.run = <<>>, !.pc = "term"]

\* case ch := <-sf.copy, at either select. Inside the for loop the select
\* was the turn of the current task, which is not loaded and whose
\* pendingSize is not given back.
loopCopy(sf) ==
    IF sf.pc = "run"
    THEN [sf EXCEPT !.run = Tail(@),
                    !.pc = IF Tail(sf.run) = <<>> THEN "idle" ELSE "run"]
    ELSE sf

\* default of the inner select: the current task is taken up
loopDefault(sf) == [sf EXCEPT !.pc = "load"]

\* the body of default: the key is counted as a duplicate or loaded into the
\* trie and recorded as seen, and pendingSize is decreased
loopLoadNoDedup(sf) ==
    LET k == Head(sf.run)
    IN [sf EXCEPT !.trie.keys = @ \cup {k}, !.loads = Append(@, k),
                  !.seen = @ \cup {k}, !.pendingSize = @ - 1,
                  !.run = Tail(@),
                  !.pc = IF Tail(sf.run) = <<>> THEN "idle" ELSE "run"]
loopLoad(sf) ==
    LET k == Head(sf.run)
        dup == k \in sf.seen
    IN [sf EXCEPT !.dups = IF dup THEN @ + 1 ELSE @,
                  !.trie.keys = IF dup THEN @ ELSE @ \cup {k},
                  !.loads = IF dup THEN @ ELSE Append(@, k),
                  !.late = IF ~dup /\ sf.stop THEN @ + 1 ELSE @,
                  !.seen = @ \cup {k},
                  !.pendingSize = @ - 1,
                  !.run = Tail(@),
                  !.pc = IF Tail(sf.run) = <<>> THEN "idle" ELSE "run"]

\* ---- the prefetcher
NoMeters ==
    [accountLoad |-> 0, accountDup |-> 0, accountSkip |-> 0, accountWaste |-> 0,
     storageLoad |-> 0, storageDup |-> 0, storageSkip |-> 0, storageWaste |-> 0,
     deliveryMiss |-> 0, published |-> 0]

PCall(op, on, id, keys, read, ret) ==
    [op |-> op, on |-> on, id |-> id, keys |-> keys, read |-> read,
     ret |-> ret, trie |-> NilTrie, sent |-> FALSE]

\* What the caller may do: the tries and key batches it asks for, whether on
\* the active prefetcher or on an inactive copy, the tries whose opening
\* may fail, and the calls it makes (a fixed script, or any up to maxops, of
\* them up to maxbig prefetches of a batch over the parallel threshold).
Env(ids, batches, ons, reads, fail, script, maxops, maxbig) ==
    [ids |-> ids, batches |-> batches, ons |-> ons, reads |-> reads,
     fail |-> fail, script |-> script, maxops |-> maxops, maxbig |-> maxbig]
NoEnv == Env({}, {}, {}, {}, {}, <<>>, 0, 0)

\* newTriePrefetcher: no fetcher, open channels, mainLoop at its select.
\* fetchers are kept after mainLoop sets p.fetchers to nil, nilled says so;
\* cp is the latest inactive copy made; claimed are the tries trie() has
\* returned for; dropped counts the messages mainLoop did not schedule;
\* panicked says a closed channel was closed again.
newTriePrefetcher(root, noreads, env) ==
    [root |-> root, noreads |-> noreads, fetchers |-> <<>>, nilled |-> FALSE,
     prefetchChan |-> <<>>, abortChan |-> <<>>, closed |-> 0,
     closeMainChan |-> FALSE, closeMainDoneChan |-> FALSE,
     main |-> [pc |-> "select", msg |-> [id |-> AccountTrie, keys |-> <<>>,
                                         after |-> FALSE]],
     meters |-> NoMeters,
     caller |-> [pc |-> "ready", id |-> AccountTrie, todo |-> {}],
     cp |-> [made |-> FALSE, fetches |-> <<>>],
     call |-> PCall("init", "active", AccountTrie, <<>>, FALSE, "none"),
     ops |-> 0, bigs |-> 0, claimed |-> {}, dropped |-> 0, panicked |-> FALSE, env |-> env]
Unused == newTriePrefetcher(1, FALSE, NoEnv)

pathdb == <<layers, buffer, clean, kv, psid, stateIDs, freezer, config, last,
            calls, tree>>

HasFetcher(id) == ~pf.nilled /\ id \in DOMAIN pf.fetchers
Workers ==
    UNION {{<<id, i>> : i \in 0..Len(pf.fetchers[id].paraChildren)} :
           id \in DOMAIN pf.fetchers}
Sub(w) == IF w[2] = 0 THEN pf.fetchers[w[1]]
          ELSE pf.fetchers[w[1]].paraChildren[w[2]]
PutSub(w, sf) ==
    IF w[2] = 0 THEN [pf.fetchers EXCEPT ![w[1]] = sf]
    ELSE [pf.fetchers EXCEPT ![w[1]].paraChildren[w[2]] = sf]
Terminated(sf) ==
    /\ sf.pc = "term"
    /\ \A i \in DOMAIN sf.paraChildren : sf.paraChildren[i].pc = "term"
\* the fetcher some peek is waiting on: sf.copy <- ch is ready there
PeekTargets ==
    IF pf.caller.pc \in {"peek", "copy"} THEN {pf.caller.id} ELSE {}
CopyRequested(w) == w[2] = 0 /\ w[1] \in PeekTargets

\* the call the caller makes next, when it follows a script
Op(op, on, id, keys, read) ==
    [op |-> op, on |-> on, id |-> id, keys |-> keys, read |-> read]
Allowed(op, on, id, keys, read) ==
    /\ pf.caller.pc = "ready"
    /\ pf.ops < pf.env.maxops
    /\ on = "copy" => pf.cp.made
    /\ pf.env.script # <<>> =>
           pf.env.script[pf.ops + 1] = Op(op, on, id, keys, read)

\* ---- the API
IsBig(keys) == Len(keys) > parallelTriePrefetchThreshold
\* prefetch: the first test
PrefetchSkipsNever(read, noreads) == FALSE
PrefetchSkips(read, noreads) == read /\ noreads

\* the select of prefetch: the cases that are ready
PrefetchSelect ==
    {b \in {"closed", "send"} :
        \/ b = "closed" /\ pf.closeMainChan
        \/ b = "send" /\ Len(pf.prefetchChan) < concurrentChanSize}

Prefetch(on, id, keys, read) ==
    /\ Allowed("prefetch", on, id, keys, read)
    /\ IsBig(keys) => pf.bigs < pf.env.maxbig
    /\ IF PrefetchSkips(read, pf.noreads) \/ on = "copy"
       THEN pf' = [pf EXCEPT !.ops = @ + 1,
                      !.bigs = IF IsBig(keys) THEN @ + 1 ELSE @,
                      !.call = PCall("prefetch", on, id, keys, read, "nil")]
       ELSE \E b \in PrefetchSelect :
               pf' = [pf EXCEPT
                   !.ops = @ + 1,
                   !.bigs = IF IsBig(keys) THEN @ + 1 ELSE @,
                   !.prefetchChan =
                       IF b = "send"
                       THEN Append(@, [id |-> id, keys |-> keys,
                                       after |-> id \in pf.claimed])
                       ELSE @,
                   !.call = [PCall("prefetch", on, id, keys, read, "nil")
                                EXCEPT !.sent = (b = "send")]]
    /\ UNCHANGED <<pathdb, pz, pool>>

\* the select of trie: the cases that are ready
TrieSelect ==
    {b \in {"closed", "send"} :
        \/ b = "closed" /\ pf.closeMainChan
        \/ b = "send" /\ Len(pf.abortChan) < abortChanSize}

\* trie, up to the call of peek
Trie(on, id) ==
    /\ Allowed("trie", on, id, <<>>, FALSE)
    /\ IF on = "copy"
       THEN LET t == IF id \in DOMAIN pf.cp.fetches THEN pf.cp.fetches[id]
                     ELSE NilTrie
            IN pf' = [pf EXCEPT !.ops = @ + 1,
                         !.call = [PCall("trie", on, id, <<>>, FALSE,
                                         IF t.nil THEN "nil" ELSE "trie")
                                      EXCEPT !.trie = t]]
       ELSE IF ~HasFetcher(id)
       THEN pf' = [pf EXCEPT !.ops = @ + 1,
                      !.meters.deliveryMiss = @ + 1,
                      !.call = PCall("trie", on, id, <<>>, FALSE, "nil")]
       ELSE \E b \in TrieSelect :
               pf' = [pf EXCEPT
                   !.ops = @ + 1,
                   !.abortChan = IF b = "send" THEN Append(@, id) ELSE @,
                   !.caller = [@ EXCEPT !.pc = "peek", !.id = id],
                   !.call = [PCall("trie", on, id, <<>>, FALSE, "pending")
                                EXCEPT !.sent = (b = "send")]]
    /\ UNCHANGED <<pathdb, pz, pool>>

\* copy of the active prefetcher: of a closed one the copy has no trie, of
\* an open one it has the peek of every fetcher, taken under the read lock
Copy ==
    /\ Allowed("copy", "active", AccountTrie, <<>>, FALSE)
    /\ IF pf.closeMainChan \/ DOMAIN pf.fetchers = {}
       THEN pf' = [pf EXCEPT !.ops = @ + 1,
                      !.cp = [made |-> TRUE, fetches |-> <<>>],
                      !.call = PCall("copy", "active", AccountTrie, <<>>,
                                     FALSE, "none")]
       ELSE \E first \in DOMAIN pf.fetchers :
               pf' = [pf EXCEPT
                   !.ops = @ + 1,
                   !.cp = [made |-> FALSE, fetches |-> <<>>],
                   !.caller = [pc |-> "copy", id |-> first,
                               todo |-> DOMAIN pf.fetchers \ {first}],
                   !.call = PCall("copy", "active", AccountTrie, <<>>,
                                  FALSE, "pending")]
    /\ UNCHANGED <<pathdb, pz, pool>>

\* subfetcher.peek, for trie and for copy: the loop grants the copy at one
\* of its selects, or term is closed and the trie is copied directly
Peek ==
    /\ \E id \in PeekTargets :
        LET sf == pf.fetchers[id]
            t == sf.trie
            served == [pf.fetchers EXCEPT ![id] = loopCopy(sf)]
        IN /\ sf.pc \in {"idle", "run", "term"}
           /\ IF pf.caller.pc = "peek"
              THEN pf' = [pf EXCEPT
                      !.fetchers = served,
                      !.caller.pc = "ready",
                      !.claimed = @ \cup {id},
                      !.meters.deliveryMiss = IF t.nil THEN @ + 1 ELSE @,
                      !.call = [@ EXCEPT !.trie = t,
                                   !.ret = IF t.nil THEN "nil" ELSE "trie"]]
              ELSE \E next \in IF pf.caller.todo = {} THEN {id}
                               ELSE pf.caller.todo :
                      pf' = [pf EXCEPT
                          !.fetchers = served,
                          !.cp = [made |-> pf.caller.todo = {},
                                  fetches |->
                                      [x \in DOMAIN pf.cp.fetches \cup {id} |->
                                          IF x = id THEN t
                                          ELSE pf.cp.fetches[x]]],
                          !.caller = IF pf.caller.todo = {}
                                     THEN [@ EXCEPT !.pc = "ready"]
                                     ELSE [@ EXCEPT !.id = next,
                                              !.todo = @ \ {next}],
                          !.call.ret = IF pf.caller.todo = {} THEN "none"
                                       ELSE @]
    /\ UNCHANGED <<pathdb, pz, pool>>

\* used: recorded on the fetcher when the prefetcher is active and open and
\* has the fetcher. Only membership in used is ever read.
UsedDropsSeen(sf, keys) ==
    [sf EXCEPT !.used = @ \cup Range(keys), !.seen = @ \ Range(keys)]
UsedAppend(sf, keys) == [sf EXCEPT !.used = @ \cup Range(keys)]

Used(on, id, keys) ==
    /\ Allowed("used", on, id, keys, FALSE)
    /\ pf' = [pf EXCEPT
           !.ops = @ + 1,
           !.fetchers = IF on = "active" /\ ~pf.closeMainChan /\ HasFetcher(id)
                        THEN [@ EXCEPT ![id] = UsedAppend(@, keys)]
                        ELSE @,
           !.call = PCall("used", on, id, keys, FALSE, "none")]
    /\ UNCHANGED <<pathdb, pz, pool>>

\* close: the compare-and-swap of closed decides who closes closeMainChan
CloseSwaps(closed) == closed = 0

Close(on) ==
    /\ Allowed("close", on, AccountTrie, <<>>, FALSE)
    /\ IF on = "active" /\ CloseSwaps(pf.closed)
       THEN pf' = [pf EXCEPT
               !.ops = @ + 1, !.closed = 1, !.closeMainChan = TRUE,
               !.panicked = @ \/ pf.closeMainChan,
               !.caller.pc = "closing",
               !.call = PCall("close", on, AccountTrie, <<>>, FALSE, "pending")]
       ELSE pf' = [pf EXCEPT
               !.ops = @ + 1,
               !.call = PCall("close", on, AccountTrie, <<>>, FALSE, "none")]
    /\ UNCHANGED <<pathdb, pz, pool>>

\* close: <-p.closeMainDoneChan
CloseWaits(done) == done

CloseReturn ==
    /\ pf.caller.pc = "closing"
    /\ CloseWaits(pf.closeMainDoneChan)
    /\ pf' = [pf EXCEPT !.caller.pc = "ready", !.call.ret = "none"]
    /\ UNCHANGED <<pathdb, pz, pool>>

\* ---- mainLoop
\* case pMsg := <-p.prefetchChan, up to and with fetcher.schedule. A new
\* fetcher is put in the map under the write lock, which a copy in
\* progress holds off.
StopClosedNever(sf) == FALSE
StopClosed(sf) == sf.stop

MainPrefetch ==
    /\ pf.main.pc = "select"
    /\ pf.prefetchChan # <<>>
    /\ LET m == Head(pf.prefetchChan)
           known == m.id \in DOMAIN pf.fetchers
           f == IF known THEN pf.fetchers[m.id] ELSE newSubfetcher
           put(sf) == [x \in DOMAIN pf.fetchers \cup {m.id} |->
                          IF x = m.id THEN sf ELSE pf.fetchers[x]]
       IN /\ ~known => pf.caller.pc # "copy"
          /\ pf' = [pf EXCEPT
                 !.prefetchChan = Tail(@),
                 !.dropped = IF StopClosed(f) THEN @ + 1 ELSE @,
                 !.fetchers = IF StopClosed(f) THEN put(f)
                              ELSE put(schedule(f, m.keys)),
                 !.main = IF StopClosed(f) THEN @
                          ELSE [pc |-> "parallel", msg |-> m]]
    /\ UNCHANGED <<pathdb, pz, pool>>

\* the same case with fetcher.schedule in its two steps, between which the
\* loop of the subfetcher may run
MainAppend ==
    /\ pf.main.pc = "select"
    /\ pf.prefetchChan # <<>>
    /\ LET m == Head(pf.prefetchChan)
           known == m.id \in DOMAIN pf.fetchers
           f == IF known THEN pf.fetchers[m.id] ELSE newSubfetcher
           put(sf) == [x \in DOMAIN pf.fetchers \cup {m.id} |->
                          IF x = m.id THEN sf ELSE pf.fetchers[x]]
       IN /\ ~known => pf.caller.pc # "copy"
          /\ pf' = [pf EXCEPT
                 !.prefetchChan = Tail(@),
                 !.dropped = IF StopClosed(f) THEN @ + 1 ELSE @,
                 !.fetchers = IF StopClosed(f) THEN put(f)
                              ELSE put(scheduleAppend(f, m.keys)),
                 !.main = IF StopClosed(f) THEN @
                          ELSE [pc |-> "wake", msg |-> m]]
    /\ UNCHANGED <<pathdb, pz, pool>>
MainWake ==
    /\ pf.main.pc = "wake"
    /\ pf' = [pf EXCEPT !.fetchers[pf.main.msg.id] = scheduleWake(@),
                        !.main.pc = "parallel"]
    /\ UNCHANGED <<pathdb, pz, pool>>

\* the rest of that case: pendingSize is read and the keys of the message
\* go to the parallel children when it is over the threshold
MainParallel ==
    /\ pf.main.pc = "parallel"
    /\ LET m == pf.main.msg
           f == pf.fetchers[m.id]
       IN pf' = [pf EXCEPT
              !.fetchers[m.id] = IF OverThreshold(f.pendingSize)
                                 THEN scheduleParallel(f, m.keys) ELSE f,
              !.main.pc = "select"]
    /\ UNCHANGED <<pathdb, pz, pool>>

\* case fetcher := <-p.abortChan
MainAbort ==
    /\ pf.main.pc = "select"
    /\ pf.abortChan # <<>>
    /\ pf' = [pf EXCEPT !.abortChan = Tail(@),
                 !.fetchers[Head(pf.abortChan)] = abortAll(@)]
    /\ UNCHANGED <<pathdb, pz, pool>>

\* case <-p.closeMainChan, first loop: every fetcher and child is aborted
MainClose ==
    /\ pf.main.pc = "select"
    /\ pf.closeMainChan
    /\ pf' = [pf EXCEPT
           !.fetchers = [id \in DOMAIN @ |-> abortAll(@[id])],
           !.main.pc = "closing"]
    /\ UNCHANGED <<pathdb, pz, pool>>

\* the meters of one fetcher
PublishIgnoresUsed(m, id, sf, root) ==
    IF IsAccountTrie(id, root)
    THEN [m EXCEPT !.accountLoad = @ + Cardinality(sf.seen),
                   !.accountDup = @ + sf.dups,
                   !.accountSkip = @ + Len(sf.tasks),
                   !.accountWaste = @ + Cardinality(sf.seen)]
    ELSE [m EXCEPT !.storageLoad = @ + Cardinality(sf.seen),
                   !.storageDup = @ + sf.dups,
                   !.storageSkip = @ + Len(sf.tasks),
                   !.storageWaste = @ + Cardinality(sf.seen)]
Publish(m, id, sf, root) ==
    IF IsAccountTrie(id, root)
    THEN [m EXCEPT !.accountLoad = @ + Cardinality(sf.seen),
                   !.accountDup = @ + sf.dups,
                   !.accountSkip = @ + Len(sf.tasks),
                   !.accountWaste = @ + Cardinality(sf.seen \ sf.used)]
    ELSE [m EXCEPT !.storageLoad = @ + Cardinality(sf.seen),
                   !.storageDup = @ + sf.dups,
                   !.storageSkip = @ + Len(sf.tasks),
                   !.storageWaste = @ + Cardinality(sf.seen \ sf.used)]
RECURSIVE PublishAll(_, _, _)
PublishAll(m, ids, root) ==
    IF ids = {} THEN m
    ELSE LET id == CHOOSE x \in ids : TRUE
         IN PublishAll(Publish(m, id, pf.fetchers[id], root), ids \ {id}, root)

\* the second loop, which waits for the term of every fetcher and child
\* and runs to its end once they are all closed: the meters are marked,
\* the used keys are deleted from seen, closeMainDoneChan is closed
WaitsForParents(fetchers) ==
    \A id \in DOMAIN fetchers : fetchers[id].pc = "term"
WaitsForAll(fetchers) == \A id \in DOMAIN fetchers : Terminated(fetchers[id])

MainCloseWait ==
    /\ pf.main.pc = "closing"
    /\ WaitsForAll(pf.fetchers)
    /\ pf' = [pf EXCEPT
           !.meters = [PublishAll(@, DOMAIN pf.fetchers, pf.root)
                          EXCEPT !.published = @ + 1],
           !.fetchers = [id \in DOMAIN @ |->
                            [@[id] EXCEPT !.seen = @ \ pf.fetchers[id].used]],
           !.closeMainDoneChan = TRUE,
           !.main.pc = "nilling"]
    /\ UNCHANGED <<pathdb, pz, pool>>

\* p.fetchers = nil, and mainLoop returns
MainCloseNil ==
    /\ pf.main.pc = "nilling"
    /\ pf' = [pf EXCEPT !.nilled = TRUE, !.main.pc = "exit"]
    /\ UNCHANGED <<pathdb, pz, pool>>

\* ---- the subfetcher goroutines
LoopOpen ==
    /\ \E w \in Workers, ok \in BOOLEAN :
        /\ Sub(w).pc = "open"
        /\ ~ok => w[1] \in pf.env.fail
        /\ pf' = [pf EXCEPT !.fetchers = PutSub(w, loopOpen(Sub(w), ok))]
    /\ UNCHANGED <<pathdb, pz, pool>>

LoopWake ==
    /\ \E w \in Workers :
        /\ Sub(w).pc = "idle" /\ Sub(w).wake
        /\ pf' = [pf EXCEPT !.fetchers = PutSub(w, loopWake(Sub(w)))]
    /\ UNCHANGED <<pathdb, pz, pool>>

LoopStop ==
    /\ \E w \in Workers :
        /\ Sub(w).pc \in {"idle", "run"} /\ Sub(w).stop
        /\ pf' = [pf EXCEPT !.fetchers = PutSub(w, loopStop(Sub(w)))]
    /\ UNCHANGED <<pathdb, pz, pool>>

\* default is taken only when no other case of the select is ready
LoopDefault ==
    /\ \E w \in Workers :
        /\ Sub(w).pc = "run" /\ ~Sub(w).stop /\ ~CopyRequested(w)
        /\ pf' = [pf EXCEPT !.fetchers = PutSub(w, loopDefault(Sub(w)))]
    /\ UNCHANGED <<pathdb, pz, pool>>

LoopLoad ==
    /\ \E w \in Workers :
        /\ Sub(w).pc = "load"
        /\ pf' = [pf EXCEPT !.fetchers = PutSub(w, loopLoad(Sub(w)))]
    /\ UNCHANGED <<pathdb, pz, pool>>

\* ------------------------------------------------------------ pruned freezer
\* prunedfreezer keeps only frozen. AppendAncient is lock free: its load of
\* frozen and its add are two atomic operations, and callers interleave.
\* accepted lists the numbers of the calls that returned nil, raced says
\* that two calls with the same number were ever in flight together.
MaxAppends == 4                  \* AppendAncient calls over all callers
Appenders == {1, 2}
errOutOrderInsertion == "errOutOrderInsertion"

\* TruncateHead is lock free as well: its load of frozen, its store and the
\* write of the value it loads again are steps of their own. db is the
\* frozen number in the key-value store, tr the calls of TruncateHead: k
\* counts those of a caller, ret is what the last one returned.
MaxTruncs == 2                   \* TruncateHead calls over all callers
Truncators == {1, 2}

newPrunedFreezer(offset) ==
    [frozen |-> offset, offset |-> offset, accepted |-> <<>>, n |-> 0,
     raced |-> FALSE,
     on |-> [c \in Appenders |-> [pc |-> "idle", number |-> 0, err |-> "nil"]],
     db |-> offset, nt |-> 0,
     tr |-> [t \in Truncators |->
                [pc |-> "idle", k |-> 0, items |-> 0, preHead |-> 0,
                 ret |-> [head |-> 0, err |-> "none"]]]]

InFlight(c) == pz.on[c].pc = "add"

\* AppendAncient: atomic.LoadUint64(&f.frozen) != number
AcceptsAny(frozen, number) == TRUE
Accepts(frozen, number) == frozen = number

\* AppendAncient up to its return of errOutOrderInsertion
AppendLoad(c, number) ==
    /\ pz.on[c].pc = "idle"
    /\ pz.n < MaxAppends
    /\ pz' = [pz EXCEPT
           !.n = @ + 1,
           !.raced = @ \/ \E o \in Appenders \ {c} :
                             InFlight(o) /\ pz.on[o].number = number,
           !.on[c] = IF Accepts(pz.frozen, number)
                     THEN [pc |-> "add", number |-> number, err |-> "nil"]
                     ELSE [pc |-> "idle", number |-> number,
                           err |-> errOutOrderInsertion]]
    /\ UNCHANGED <<pathdb, pf, pool>>

\* AppendAncient: atomic.AddUint64(&f.frozen, 1) and return nil
AppendAdd(c) ==
    /\ pz.on[c].pc = "add"
    /\ pz' = [pz EXCEPT !.frozen = @ + 1,
                 !.accepted = Append(@, pz.on[c].number),
                 !.on[c].pc = "idle"]
    /\ UNCHANGED <<pathdb, pf, pool>>

\* TruncateHead: preHead := atomic.LoadUint64(&f.frozen), and the return of
\* preHead and nil when preHead is not over items
Truncates(preHead, items) == preHead > items

TruncateHeadLoad(t, items) ==
    /\ pz.tr[t].pc = "idle"
    /\ pz.nt < MaxTruncs
    /\ pz' = [pz EXCEPT
           !.nt = @ + 1,
           !.tr[t] = IF Truncates(pz.frozen, items)
                     THEN [pc |-> "store", k |-> pz.tr[t].k + 1,
                           items |-> items, preHead |-> pz.frozen,
                           ret |-> [head |-> 0, err |-> "none"]]
                     ELSE [pc |-> "idle", k |-> pz.tr[t].k + 1,
                           items |-> items, preHead |-> pz.frozen,
                           ret |-> [head |-> pz.frozen, err |-> "nil"]]]
    /\ UNCHANGED <<pathdb, pf, pool>>

\* TruncateHead: atomic.StoreUint64(&f.frozen, items)
TruncateHeadStore(t) ==
    /\ pz.tr[t].pc = "store"
    /\ pz' = [pz EXCEPT !.frozen = pz.tr[t].items, !.tr[t].pc = "write"]
    /\ UNCHANGED <<pathdb, pf, pool>>

\* TruncateHead: WriteFrozenOfAncientFreezer(f.db, atomic.LoadUint64(&f.frozen))
\* and return preHead, nil
TruncateHeadWrite(t) ==
    /\ pz.tr[t].pc = "write"
    /\ pz' = [pz EXCEPT !.db = pz.frozen, !.tr[t].pc = "idle",
                 !.tr[t].ret = [head |-> pz.tr[t].preHead, err |-> "nil"]]
    /\ UNCHANGED <<pathdb, pf, pool>>

\* ------------------------------------------------------------ vote pool
\* VotePool: curVotes and futureVotes map a target block hash to its
\* VoteBox, curVotesPq and futureVotesPq are heaps of VoteData ordered by
\* TargetNumber, receivedVotes is the set of vote hashes. All writes are
\* made by the goroutine of loop. A vote message is kept as its hash,
\* <<TargetHash, TargetNumber, k>>. head is the number of chain.CurrentBlock,
\* verified the hashes GetVerifiedBlockByHash finds.
maxCurVoteAmountPerBlock == 21
maxFutureVoteAmountPerBlock == 50
lowerLimitOfVoteBlockNumber == 256
upperLimitOfVoteBlockNumber == 11

VoteEnvelope(h, n, k) == [TargetHash |-> h, TargetNumber |-> n, hash |-> <<h, n, k>>]
VoteData(n, h) == [TargetNumber |-> n, TargetHash |-> h]
VoteBox(n, h, msgs) == [blockNumber |-> n, blockHash |-> h, voteMessages |-> msgs]
Without(m, h) == [x \in DOMAIN m \ {h} |-> m[x]]
With(m, h, box) == [x \in DOMAIN m \cup {h} |-> IF x = h THEN box ELSE m[x]]

\* votesPriorityQueue under container/heap, indices from 0 as in the code
pqLess(pq, i, j) == pq[i + 1].TargetNumber < pq[j + 1].TargetNumber
pqSwap(pq, i, j) == [pq EXCEPT ![i + 1] = pq[j + 1], ![j + 1] = pq[i + 1]]
pqPeek(pq) == pq[1]
RECURSIVE heapUp(_, _)
heapUp(pq, j) ==
    LET i == (j - 1) \div 2
    IN IF j = 0 \/ ~pqLess(pq, j, i) THEN pq ELSE heapUp(pqSwap(pq, i, j), i)
RECURSIVE heapDown(_, _, _)
heapDown(pq, i, n) ==
    LET j1 == 2 * i + 1
        j == IF j1 + 1 < n /\ pqLess(pq, j1 + 1, j1) THEN j1 + 1 ELSE j1
    IN IF j1 >= n THEN pq
       ELSE IF ~pqLess(pq, j, i) THEN pq
       ELSE heapDown(pqSwap(pq, i, j), j, n)
heapPush(pq, x) == heapUp(Append(pq, x), Len(pq))
heapPop(pq) ==
    LET n == Len(pq) - 1
        s == heapDown(pqSwap(pq, 0, n), 0, n)
    IN [pq |-> SubSeq(s, 1, n), x |-> s[n + 1]]

\* what the pool is given: the votes that may arrive, the block numbers the
\* chain reaches, the outcomes of engine.VerifyVote in a transfer
VoteEnv(votes, numbers, verdicts) ==
    [votes |-> votes, numbers |-> numbers, verdicts |-> verdicts]

\* NewVotePool, with the loop at its select
NewVotePool(head, env) ==
    [curVotes |-> <<>>, futureVotes |-> <<>>,
     curVotesPq |-> <<>>, futureVotesPq |-> <<>>,
     receivedVotes |-> {},
     head |-> head, verified |-> {},
     pc |-> "select", latest |-> 0, env |-> env]

\* engine.VerifyVote on the votes of a box
Verified(verdict, v) ==
    \/ verdict = "all"
    \/ verdict = "odd" /\ v[3] % 2 = 1

\* basicVerify
basicVerifyNoLimit(p, vote, m, isFutureVote, sigok) ==
    /\ vote.hash \notin p.receivedVotes
    /\ sigok
basicVerify(p, vote, m, isFutureVote, sigok) ==
    LET maxVoteAmountPerBlock ==
            IF isFutureVote THEN maxFutureVoteAmountPerBlock
            ELSE maxCurVoteAmountPerBlock
    IN /\ vote.hash \notin p.receivedVotes
       /\ vote.TargetHash \in DOMAIN m =>
              Len(m[vote.TargetHash].voteMessages) < maxVoteAmountPerBlock
       /\ sigok

\* putVote
putVoteAlwaysPushes(m, votesPq, vote) ==
    LET h == vote.TargetHash
        box == IF h \in DOMAIN m THEN m[h]
               ELSE VoteBox(vote.TargetNumber, h, <<>>)
    IN [m |-> With(m, h, [box EXCEPT !.voteMessages = Append(@, vote.hash)]),
        pq |-> heapPush(votesPq, VoteData(vote.TargetNumber, h))]
putVote(m, votesPq, vote) ==
    LET h == vote.TargetHash
        box == IF h \in DOMAIN m THEN m[h]
               ELSE VoteBox(vote.TargetNumber, h, <<>>)
    IN [m |-> With(m, h, [box EXCEPT !.voteMessages = Append(@, vote.hash)]),
        pq |-> IF h \in DOMAIN m THEN votesPq
               ELSE heapPush(votesPq, VoteData(vote.TargetNumber, h))]

\* putIntoVotePool: sigok is the outcome of vote.Verify, valid that of
\* engine.VerifyVote; where the code returns false the pool is as it was
InRange(targetNumber, headNumber) ==
    ~ \/ targetNumber + lowerLimitOfVoteBlockNumber - 1 < headNumber
      \/ targetNumber > headNumber + upperLimitOfVoteBlockNumber
putIntoVotePool(p, vote, sigok, valid) ==
    LET isFutureVote == vote.TargetHash \notin p.verified
        votes == IF isFutureVote THEN p.futureVotes ELSE p.curVotes
        votesPq == IF isFutureVote THEN p.futureVotesPq ELSE p.curVotesPq
        put == putVote(votes, votesPq, vote)
    IN IF ~InRange(vote.TargetNumber, p.head) THEN p
       ELSE IF ~basicVerify(p, vote, votes, isFutureVote, sigok) THEN p
       ELSE IF ~isFutureVote /\ ~valid THEN p
       ELSE IF isFutureVote
       THEN [p EXCEPT !.futureVotes = put.m, !.futureVotesPq = put.pq,
                      !.receivedVotes = @ \cup {vote.hash}]
       ELSE [p EXCEPT !.curVotes = put.m, !.curVotesPq = put.pq,
                      !.receivedVotes = @ \cup {vote.hash}]

\* transfer
transfer(p, blockHash, verdict) ==
    LET popped == heapPop(p.futureVotesPq)
        voteBox == p.futureVotes[blockHash]
        Passes(v) == Verified(verdict, v)
        validVotes == SelectSeq(voteBox.voteMessages, Passes)
    IN IF blockHash \notin DOMAIN p.futureVotes
       THEN [p EXCEPT !.futureVotesPq = popped.pq]
       ELSE [p EXCEPT
               !.futureVotesPq = popped.pq,
               !.receivedVotes =
                   @ \ {v \in Range(voteBox.voteMessages) : ~Passes(v)},
               !.curVotesPq = IF blockHash \in DOMAIN p.curVotes THEN @
                              ELSE heapPush(@, popped.x),
               !.curVotes =
                   IF blockHash \in DOMAIN @
                   THEN [@ EXCEPT ![blockHash].voteMessages = @ \o validVotes]
                   ELSE With(@, blockHash,
                             VoteBox(voteBox.blockNumber, voteBox.blockHash,
                                     validVotes)),
               !.futureVotes = Without(@, blockHash)]

\* transferVotesFromFutureToCur: its three loops
RECURSIVE transferOld(_, _, _)
transferOld(p, latestBlockNumber, verdict) ==
    IF /\ Len(p.futureVotesPq) > 0
       /\ pqPeek(p.futureVotesPq).TargetNumber + upperLimitOfVoteBlockNumber
              < latestBlockNumber
    THEN transferOld(transfer(p, pqPeek(p.futureVotesPq).TargetHash, verdict),
                     latestBlockNumber, verdict)
    ELSE p
RECURSIVE transferLocal(_, _, _, _)
transferLocal(p, latestBlockNumber, verdict, futurePqBuffer) ==
    IF /\ Len(p.futureVotesPq) > 0
       /\ pqPeek(p.futureVotesPq).TargetNumber <= latestBlockNumber
    THEN IF pqPeek(p.futureVotesPq).TargetHash \notin p.verified
         THEN LET popped == heapPop(p.futureVotesPq)
              IN transferLocal([p EXCEPT !.futureVotesPq = popped.pq],
                               latestBlockNumber, verdict,
                               Append(futurePqBuffer, popped.x))
         ELSE transferLocal(
                  transfer(p, pqPeek(p.futureVotesPq).TargetHash, verdict),
                  latestBlockNumber, verdict, futurePqBuffer)
    ELSE [p |-> p, futurePqBuffer |-> futurePqBuffer]
RECURSIVE pushBack(_, _, _)
pushBack(pq, futurePqBuffer, i) ==
    IF i > Len(futurePqBuffer) THEN pq
    ELSE pushBack(heapPush(pq, futurePqBuffer[i]), futurePqBuffer, i + 1)
transferVotesFromFutureToCur(p, latestBlockNumber, verdict) ==
    LET r == transferLocal(transferOld(p, latestBlockNumber, verdict),
                           latestBlockNumber, verdict, <<>>)
    IN [r.p EXCEPT !.futureVotesPq = pushBack(@, r.futurePqBuffer, 1)]

\* prune
RECURSIVE prune(_, _)
prune(p, latestBlockNumber) ==
    IF /\ Len(p.curVotesPq) > 0
       /\ pqPeek(p.curVotesPq).TargetNumber + lowerLimitOfVoteBlockNumber - 1
              < latestBlockNumber
    THEN LET popped == heapPop(p.curVotesPq)
             blockHash == popped.x.TargetHash
         IN prune(IF blockHash \in DOMAIN p.curVotes
                  THEN [p EXCEPT
                          !.curVotesPq = popped.pq,
                          !.receivedVotes =
                              @ \ Range(p.curVotes[blockHash].voteMessages),
                          !.curVotes = Without(@, blockHash)]
                  ELSE [p EXCEPT !.curVotesPq = popped.pq],
                  latestBlockNumber)
    ELSE p

\* ---- the loop of the pool and the chain around it
\* the votes of one target arrive in the order of their numbers: the next
\* one not yet received, or the last one received, once more
SameTarget(v, w) ==
    v.TargetHash = w.TargetHash /\ v.TargetNumber = w.TargetNumber
Arriving ==
    LET fresh == {w \in pool.env.votes : w.hash \notin pool.receivedVotes}
        old == pool.env.votes \ fresh
    IN {v \in fresh : \A w \in fresh :
                          SameTarget(v, w) => v.hash[3] <= w.hash[3]}
       \cup {v \in old : \A w \in old :
                            SameTarget(v, w) => v.hash[3] >= w.hash[3]}

\* case vote := <-pool.votesCh
PutIntoVotePool ==
    /\ pool.pc = "select"
    /\ \E vote \in Arriving, sigok \in BOOLEAN, valid \in BOOLEAN :
          pool' = putIntoVotePool(pool, vote, sigok, valid)
    /\ UNCHANGED <<pathdb, pf, pz>>

\* case ev := <-pool.highestVerifiedBlockCh, up to and with prune
HighestVerifiedBlock ==
    /\ pool.pc = "select"
    /\ \E latest \in pool.env.numbers :
          /\ latest <= pool.head
          /\ pool' = [prune(pool, latest) EXCEPT !.pc = "transfer",
                                                  !.latest = latest]
    /\ UNCHANGED <<pathdb, pf, pz>>

\* the rest of that case: transferVotesFromFutureToCur
TransferVotes ==
    /\ pool.pc = "transfer"
    /\ \E verdict \in pool.env.verdicts :
          pool' = [transferVotesFromFutureToCur(pool, pool.latest, verdict)
                      EXCEPT !.pc = "select", !.latest = 0]
    /\ UNCHANGED <<pathdb, pf, pz>>

\* the chain: a block is verified, the current block moves on
VerifyBlock ==
    /\ \E h \in {v.TargetHash : v \in pool.env.votes} \ pool.verified :
          pool' = [pool EXCEPT !.verified = @ \cup {h}]
    /\ UNCHANGED <<pathdb, pf, pz>>
InsertBlock ==
    /\ \E n \in pool.env.numbers :
          /\ n > pool.head
          /\ pool' = [pool EXCEPT !.head = n]
    /\ UNCHANGED <<pathdb, pf, pz>>

NoVotePool == NewVotePool(0, VoteEnv({}, {}, {}))

\* ------------------------------------------------------------ specification
\* The configurations explored: with and without a freezer, with and
\* without a history retention limit, a small and a large buffer limit,
\* with and without a clean cache.
Config(f, h, lim, c) ==
    [freezer |-> f, StateHistory |-> h, limit |-> lim, cleanCache |-> c]
Configs == {Config(TRUE, 0, 64, TRUE), Config(TRUE, 1, 64, TRUE),
            Config(TRUE, 0, 3, TRUE), Config(FALSE, 0, 64, FALSE)}

Init ==
    /\ layers = <<[root |-> 0, id |-> 0, stale |-> FALSE]>>
    /\ buffer = EmptyBuffer
    /\ clean = EmptyMap(Keys)
    /\ kv = [k \in Keys |-> 0]
    /\ psid = 0
    /\ stateIDs = [r \in Roots |-> None]
    /\ freezer = [tail |-> 0, items |-> <<>>, synced |-> 0]
    /\ config \in Configs
    /\ last = Call("init", 0, "nil")
    /\ calls = 0
    /\ tree = EmptyTree
    /\ pf = Unused
    /\ pz = newPrunedFreezer(0)
    /\ pool = NoVotePool

DoNode == (\E l \in DOMAIN layers, k \in Keys : Node(l, k)) /\ UNCHANGED tree
DoResetCache == (\E l \in DOMAIN layers : resetCache(l)) /\ UNCHANGED tree
DoCommit ==
    /\ \E l \in DOMAIN layers, force \in BOOLEAN,
          io \in {"none", "writeHistory", "tail", "sync", "batch", "truncate"} :
           \E r \in Roots \ {layers[l].root}, d \in Diffs :
                Commit(l, Bottom(r, layers[l].id + 1, d), force, io)
    /\ UNCHANGED tree
DoRevert ==
    /\ \E l \in DOMAIN layers, i \in DOMAIN freezer.items, io \in {"none", "apply"} :
           Revert(l, freezer.items[i], io)
    /\ UNCHANGED tree
DoFlush ==
    /\ \E l \in DOMAIN layers, force \in BOOLEAN, io \in {"none", "sync", "batch"} :
           Flush(layers[l].id, force, io)
    /\ UNCHANGED tree

Next ==
    \/ DoNode
    \/ DoResetCache
    \/ DoCommit
    \/ DoRevert
    \/ DoFlush
    \/ TruncateHead

Spec == Init /\ [][Next]_vars

\* The layer tree in use: diff layers are added on top and cap flattens the
\* oldest into the disk layer.
\* The diffs stacked: one writes an account-trie node and an account, the
\* other deletes them.
TreeDiffs == {Diff(<<0, 1>>, 1, 1, None), Diff(<<0, 1>>, 0, 0, None)}
DoUpdate == \E r \in Roots, d \in TreeDiffs : Update(r, d)
DoCapStart == \E d \in 0..MaxDepth : CapStart(d)

NextCap ==
    \/ DoUpdate
    \/ DoCapStart
    \/ CapStep

SpecCap == Init /\ [][NextCap]_vars

\* The layer tree with recovery: the database is opened empty or at state
\* 1 (one flushed transition, its history in the freezer); diff layers are
\* added, capped, and the disk layer is rolled back one state at a time,
\* after which the histories above it are dropped.
TreeRoots == {0, 1, 2}
FirstDiff == Diff(<<0, 1>>, 1, 1, None)

OpenedAtOne ==
    /\ layers = <<newDiskLayer(1, 1)>>
    /\ buffer = EmptyBuffer
    /\ clean = EmptyMap(Keys)
    /\ kv = WriteNodesKV([k \in Keys |-> 0], FirstDiff.nodes)
    /\ psid = 1
    /\ stateIDs = [r \in TreeRoots |-> IF r \in {0, 1} THEN r ELSE None]
    /\ freezer = [tail |-> 0, synced |-> 1,
                  items |-> <<[id |-> 1, parent |-> 0, root |-> 1,
                               nodes |-> [k \in Keys |->
                                   IF FirstDiff.nodes[k] = None THEN None ELSE 0],
                               accounts |-> Origin(FirstDiff.accounts, EmptyMap(Accts)),
                               storages |-> Origin(FirstDiff.storages, EmptyMap(Slots))]>>]

OpenedEmpty ==
    /\ layers = <<newDiskLayer(0, 0)>>
    /\ buffer = EmptyBuffer
    /\ clean = EmptyMap(Keys)
    /\ kv = [k \in Keys |-> 0]
    /\ psid = 0
    /\ stateIDs = [r \in TreeRoots |-> None]
    /\ freezer = [tail |-> 0, items |-> <<>>, synced |-> 0]

InitTree ==
    /\ config \in {c \in Configs : c.freezer}
    /\ last = Call("init", 0, "nil")
    /\ calls = 0
    /\ tree = EmptyTree
    /\ pf = Unused
    /\ pz = newPrunedFreezer(0)
    /\ pool = NoVotePool
    /\ OpenedEmpty \/ OpenedAtOne

\* The diff stacked here writes the node and the account when they are
\* absent below it and deletes them when they are present.
NextDiff ==
    LET below == IF tree.diffs = <<>> THEN NodeBelow(<<0, 1>>)
                 ELSE tree.diffs[Len(tree.diffs)].diff.nodes[<<0, 1>>]
    IN IF below = 0 THEN FirstDiff ELSE Diff(<<0, 1>>, 0, 0, None)
DoUpdateTree == \E r \in TreeRoots : Update(r, NextDiff)

\* Recover, first half: the diff layers are dropped and the disk layer is
\* reverted with the history of its own state id.
RecoverRevert ==
    /\ tree.pc = "idle"
    /\ HasHistory(freezer, layers[Live].id)
    /\ Revert(Live, ReadHistory(freezer, layers[Live].id), "none")
    /\ tree' = [EmptyTree EXCEPT
                   !.pc = IF last'.err = "nil" THEN "recovering" ELSE "idle"]

\* Recover, second half: truncateFromHead to the recovered disk layer's id
RecoverTruncate ==
    /\ tree.pc = "recovering"
    /\ freezer' = truncateFromHead(freezer, layers[Live].id)
    /\ tree' = [tree EXCEPT !.pc = "idle"]
    /\ UNCHANGED <<layers, buffer, clean, kv, psid, stateIDs, config, last, calls,
                   pf, pz, pool>>

NextTree ==
    \/ DoUpdateTree
    \/ DoCapStart
    \/ CapStep
    \/ RecoverRevert
    \/ RecoverTruncate

SpecTree == InitTree /\ [][NextTree]_vars


\* ------------------------------------------------------------ prefetcher in use
\* The path database is opened and left alone.
PathdbIdle ==
    /\ layers = <<[root |-> 0, id |-> 0, stale |-> FALSE]>>
    /\ buffer = EmptyBuffer
    /\ clean = EmptyMap(Keys)
    /\ kv = [k \in Keys |-> 0]
    /\ psid = 0
    /\ stateIDs = [r \in Roots |-> None]
    /\ freezer = [tail |-> 0, items |-> <<>>, synced |-> 0]
    /\ config = Config(TRUE, 0, 64, TRUE)
    /\ last = Call("init", 0, "nil")
    /\ calls = 0
    /\ tree = EmptyTree

DoPrefetch ==
    \E on \in pf.env.ons, id \in pf.env.ids, keys \in pf.env.batches,
       read \in pf.env.reads : Prefetch(on, id, keys, read)
DoTrie == \E on \in pf.env.ons, id \in pf.env.ids : Trie(on, id)
DoUsed ==
    \E on \in pf.env.ons, id \in pf.env.ids, keys \in pf.env.batches :
        Used(on, id, keys)
DoClose == \E on \in pf.env.ons : Close(on)

\* Two tries, small batches, an inactive copy, reads on and off, and the
\* storage trie may fail to open.
ApiEnv ==
    Env({AccountTrie, StorageTrie}, {<<1>>, <<1, 2>>}, {"active", "copy"},
        BOOLEAN, {StorageTrie}, <<>>, MaxOps, 0)
InitPF ==
    /\ PathdbIdle
    /\ pz = newPrunedFreezer(0)
    /\ pool = NoVotePool
    /\ \E noreads \in BOOLEAN : pf = newTriePrefetcher(1, noreads, ApiEnv)

NextPF ==
    \/ DoPrefetch
    \/ DoTrie
    \/ Peek
    \/ DoUsed
    \/ DoClose
    \/ CloseReturn
    \/ Copy
    \/ MainPrefetch
    \/ MainParallel
    \/ MainAbort
    \/ MainClose
    \/ MainCloseWait
    \/ MainCloseNil
    \/ LoopOpen
    \/ LoopWake
    \/ LoopStop
    \/ LoopDefault
    \/ LoopLoad

SpecPF == InitPF /\ [][NextPF]_vars

\* One storage trie and a batch over the parallel threshold. The caller
\* follows one of these scripts, at any pace against the goroutines: the
\* trie is claimed and prefetched again; the prefetcher is closed twice; it
\* is copied, and the copy and then the prefetcher are closed; the keys
\* are reported used before the close; and, with reads off, the calls that
\* prefetch turns down.
Big == [i \in 1..(parallelTriePrefetchThreshold + 1) |-> i]
PrefetchBig == Op("prefetch", "active", StorageTrie, Big, FALSE)
CloseOf(on) == Op("close", on, AccountTrie, <<>>, FALSE)
PreemptScript ==
    <<PrefetchBig, Op("trie", "active", StorageTrie, <<>>, FALSE),
      Op("prefetch", "active", StorageTrie, <<1>>, FALSE)>>
CloseScript == <<PrefetchBig, CloseOf("active"), CloseOf("active")>>
CopyScript ==
    <<PrefetchBig, Op("copy", "active", AccountTrie, <<>>, FALSE),
      CloseOf("copy"), CloseOf("active")>>
UsedScript ==
    <<PrefetchBig, Op("used", "active", StorageTrie, Big, FALSE),
      CloseOf("active")>>
\* a read with reads off, a prefetch on a copy, and after close one prefetch
\* more than prefetchChan holds
NoOpScript ==
    <<Op("prefetch", "active", StorageTrie, <<1>>, TRUE),
      Op("copy", "active", AccountTrie, <<>>, FALSE),
      Op("prefetch", "copy", StorageTrie, <<1>>, FALSE),
      CloseOf("active")>> \o
    [i \in 1..(concurrentChanSize + 1) |->
        Op("prefetch", "active", StorageTrie, <<1>>, FALSE)]
ParScripts == {PreemptScript, CloseScript, CopyScript, UsedScript, NoOpScript}
ParEnv(script) ==
    Env({StorageTrie}, {Big, <<1>>}, {"active", "copy"}, BOOLEAN, {}, script,
        Len(script), Len(script))
InitPar ==
    /\ PathdbIdle
    /\ pz = newPrunedFreezer(0)
    /\ pool = NoVotePool
    /\ \E script \in ParScripts :
           pf = newTriePrefetcher(1, script = NoOpScript, ParEnv(script))
NextPar ==
    \/ DoPrefetch
    \/ DoTrie
    \/ Peek
    \/ DoUsed
    \/ DoClose
    \/ CloseReturn
    \/ Copy
    \/ MainPrefetch
    \/ MainParallel
    \/ MainAbort
    \/ MainClose
    \/ MainCloseWait
    \/ MainCloseNil
    \/ LoopOpen
    \/ LoopWake
    \/ LoopStop
    \/ LoopDefault
    \/ LoopLoad
\* Every goroutine that can take a step gets to take one: mainLoop, the
\* subfetchers, and the caller where it waits on a channel.
MainSteps ==
    \/ MainPrefetch
    \/ MainParallel
    \/ MainAbort
    \/ MainClose
    \/ MainCloseWait
    \/ MainCloseNil
LoopSteps ==
    \/ LoopOpen
    \/ LoopWake
    \/ LoopStop
    \/ LoopDefault
    \/ LoopLoad
Scheduling ==
    /\ WF_vars(MainSteps)
    /\ WF_vars(LoopSteps)
    /\ WF_vars(Peek)
    /\ WF_vars(CloseReturn)
SpecPar == InitPar /\ [][NextPar]_vars /\ Scheduling

\* The scenario of 20 storage slots prefetched, claimed, used and closed
SlotsN == 20
SlotsBatch == [i \in 1..SlotsN |-> i]
HitReuseScript ==
    <<Op("prefetch", "active", StorageTrie, SlotsBatch, FALSE),
      Op("trie", "active", StorageTrie, <<>>, FALSE),
      Op("used", "active", StorageTrie, SlotsBatch, FALSE),
      CloseOf("active")>>
InitHitReuse ==
    /\ PathdbIdle
    /\ pz = newPrunedFreezer(0)
    /\ pool = NoVotePool
    /\ pf = newTriePrefetcher(1, FALSE,
                              Env({StorageTrie}, {SlotsBatch}, {"active"},
                                  {FALSE}, {}, HitReuseScript,
                                  Len(HitReuseScript), Len(HitReuseScript)))
NextHitReuse ==
    \/ DoPrefetch
    \/ DoTrie
    \/ Peek
    \/ DoUsed
    \/ DoClose
    \/ CloseReturn
    \/ MainPrefetch
    \/ MainParallel
    \/ MainAbort
    \/ MainClose
    \/ MainCloseWait
    \/ MainCloseNil
    \/ LoopOpen
    \/ LoopWake
    \/ LoopStop
    \/ LoopDefault
    \/ LoopLoad
SpecHitReuse == InitHitReuse /\ [][NextHitReuse]_vars

\* The scheduling alone: batches over the threshold are prefetched and
\* nothing else is called.
KidsEnv ==
    Env({StorageTrie}, {Big}, {"active"}, {FALSE}, {}, <<>>, MaxBig, MaxBig)
InitKids ==
    /\ PathdbIdle
    /\ pz = newPrunedFreezer(0)
    /\ pool = NoVotePool
    /\ pf = newTriePrefetcher(1, FALSE, KidsEnv)
NextKids ==
    \/ DoPrefetch
    \/ MainPrefetch
    \/ MainParallel
    \/ LoopOpen
    \/ LoopWake
    \/ LoopDefault
    \/ LoopLoad
SpecKids == InitKids /\ [][NextKids]_vars

\* The wake-up alone: small batches are scheduled on one subfetcher, step
\* by step against its loop, and copies are taken of the prefetcher, which
\* peek at the subfetcher without stopping it.
MaxSched == 3
WakeEnv ==
    Env({StorageTrie}, {<<1>>, <<1, 2>>}, {"active"}, {FALSE}, {}, <<>>,
        MaxSched, 0)
InitWake ==
    /\ PathdbIdle
    /\ pz = newPrunedFreezer(0)
    /\ pool = NoVotePool
    /\ pf = newTriePrefetcher(1, FALSE, WakeEnv)
NextWake ==
    \/ DoPrefetch
    \/ Copy
    \/ Peek
    \/ MainAppend
    \/ MainWake
    \/ MainParallel
    \/ LoopOpen
    \/ LoopWake
    \/ LoopDefault
    \/ LoopLoad
WakeScheduling ==
    /\ WF_vars(MainAppend \/ MainWake \/ MainParallel)
    /\ WF_vars(LoopSteps)
    /\ WF_vars(Peek)
SpecWake == InitWake /\ [][NextWake]_vars /\ WakeScheduling

\* ------------------------------------------------------------ pruned freezer in use
MaxNumber == 3
InitPruned ==
    /\ PathdbIdle
    /\ pf = Unused
    /\ \E offset \in {0, 1} : pz = newPrunedFreezer(offset)
    /\ pool = NoVotePool
DoAppendLoad == \E c \in Appenders, number \in 0..MaxNumber : AppendLoad(c, number)
DoAppendAdd == \E c \in Appenders : AppendAdd(c)
NextPruned ==
    \/ DoAppendLoad
    \/ DoAppendAdd
SpecPruned == InitPruned /\ [][NextPruned]_vars

\* The pruned freezer appended to and truncated: one appender, as the
\* freeze loop is, and the callers of TruncateHead
DoAppendLoadOne == \E number \in 0..MaxNumber : AppendLoad(1, number)
DoAppendAddOne == AppendAdd(1)
DoTruncateHeadLoad ==
    \E t \in Truncators, items \in 0..MaxNumber : TruncateHeadLoad(t, items)
DoTruncateHeadStore == \E t \in Truncators : TruncateHeadStore(t)
DoTruncateHeadWrite == \E t \in Truncators : TruncateHeadWrite(t)
NextTruncate ==
    \/ DoAppendLoadOne
    \/ DoAppendAddOne
    \/ DoTruncateHeadLoad
    \/ DoTruncateHeadStore
    \/ DoTruncateHeadWrite
SpecTruncate == InitPruned /\ [][NextTruncate]_vars

\* ------------------------------------------------------------ vote pool in use
\* The path database, the prefetcher and the pruned freezer are left alone.
OthersIdle ==
    /\ PathdbIdle
    /\ pf = Unused
    /\ pz = newPrunedFreezer(0)
NextVotes ==
    \/ PutIntoVotePool
    \/ HighestVerifiedBlock
    \/ TransferVotes
    \/ VerifyBlock
    \/ InsertBlock

\* Many votes on one block: the chain is at block
\* 1, then far enough for every future vote to be transferred, then far
\* enough for every vote to be pruned.
MaxVotes == 51                   \* votes on one target block
FirstNumber == 1
PastUpper == FirstNumber + upperLimitOfVoteBlockNumber + 2
PastLower == FirstNumber + lowerLimitOfVoteBlockNumber + 2
ManyVotes ==
    {VoteEnvelope(1, FirstNumber, k) : k \in 1..MaxVotes}
InitVotes ==
    /\ OthersIdle
    /\ pool = NewVotePool(FirstNumber,
                          VoteEnv(ManyVotes, {FirstNumber, PastUpper, PastLower},
                                  {"all", "none"}))
SpecVotes == InitVotes /\ [][NextVotes]_vars

\* ============================================================ properties
StaleError == Result("errSnapshotStale", None, "none")
IsCall(op) == calls' = calls + 1 /\ last'.op = op
FlushReached(c) == c.op = "commit" /\ c.err \notin {"historyErr", "tailErr"}
FlushReturnedNil(c) ==
    \/ c.op = "flush" /\ c.err = "nil"
    \/ c.op = "commit" /\ c.err \in {"nil", "truncateErr"}

\* C1. Stale safety: node, account and storage on a stale disk layer return
\* errSnapshotStale and no value, whatever the buffer, the clean cache and
\* the store hold; and a stale disk layer stays stale.
StaleReadsFail ==
    \A l \in DOMAIN layers :
        layers[l].stale =>
            /\ \A k \in Keys : NodeResult(l, k) = StaleError
            /\ \A a \in Accts : AccountResult(l, a) = StaleError
            /\ \A x \in Slots : StorageResult(l, x) = StaleError
StaleSafety ==
    /\ []StaleReadsFail
    /\ [][\A l \in DOMAIN layers : layers[l].stale => layers'[l].stale]_vars
StaleSafetyWitness ==
    /\ \E l \in DOMAIN layers : layers[l].stale
    /\ \E k \in Keys : buffer.nodes[k] # None /\ buffer.nodes[k] > 0
    /\ \E a \in Accts : buffer.accounts[a] # None
    /\ \E k \in Keys : kv[k] > 0
    /\ \E k \in Keys : clean[k] # None

\* C2. Double-commit detection: a commit onto a disk layer that is already
\* stale fails, constructs no successor, merges nothing into the buffer and
\* writes no history record.
DoubleCommitDetected ==
    [][(IsCall("commit") /\ last'.pre.stale) =>
          /\ last'.err # "nil"
          /\ last'.new = 0
          /\ layers' = layers
          /\ buffer' = buffer
          /\ freezer' = freezer]_vars

\* C3. At most one disk layer instance is not stale.
AtMostOneLive ==
    Cardinality({l \in DOMAIN layers : ~layers[l].stale}) <= 1

\* C4 as stated: commit followed by revert of its history restores the
\* disk layer's (root, id) and buffer.layers, flush or no flush.
RoundTripOriginal ==
    (last.op = "revert" /\ last.err = "nil" /\ last.rt.is) =>
        /\ layers[last.new].root = last.rt.root
        /\ layers[last.new].id = last.rt.id
        /\ buffer.layers = last.rt.layers
\* C4 as amended: the round trip restores (root, id); it restores
\* buffer.layers when the commit did not flush, and leaves it 0 when the
\* commit flushed.
RoundTrip ==
    (last.op = "revert" /\ last.err = "nil" /\ last.rt.is) =>
        /\ layers[last.new].root = last.rt.root
        /\ layers[last.new].id = last.rt.id
        /\ ~layers[last.new].stale
        /\ buffer.layers = IF last.rt.flushed THEN 0 ELSE last.rt.layers
RoundTripWitness ==
    /\ last.op = "revert" /\ last.err = "nil" /\ last.rt.is
    /\ last.rt.flushed /\ last.rt.layers > 0

\* C5 as stated: after every flush that returns without error,
\* persistentStateID is the requested id, every node the buffer held is in
\* the store, and the buffer is empty.
FlushPost ==
    /\ psid = last.id
    /\ \A k \in Keys : last.bnodes[k] # None => kv[k] = last.bnodes[k]
    /\ buffer = EmptyBuffer
FlushAtomicityOriginal == FlushReturnedNil(last) => FlushPost
\* C5 as amended: the same of every flush that proceeds (force set or the
\* buffer full) and returns without error.
FlushAtomicity ==
    (FlushReturnedNil(last) /\ (last.force \/ last.full)) => FlushPost
FlushAtomicityWitness ==
    /\ last.op = "flush" /\ last.err = "nil" /\ last.force
    /\ last.pre.layers > 1
    /\ \E k \in Keys : last.bnodes[k] = 0
    /\ \E k \in Keys : last.bnodes[k] # None /\ last.bnodes[k] > 0

\* C6. A flush without force of a buffer that is not full returns nil and
\* changes nothing.
FlushSkipIsNoop ==
    [][/\ (IsCall("flush") /\ ~last'.force /\ ~last'.full) =>
            /\ last'.err = "nil"
            /\ UNCHANGED <<psid, kv, freezer, clean, buffer>>
       /\ (IsCall("commit") /\ FlushReached(last') /\ ~last'.force /\ ~last'.full) =>
            /\ psid' = psid /\ kv' = kv /\ clean' = clean
            /\ freezer'.synced = freezer.synced
            /\ buffer'.layers = buffer.layers + 1
            /\ buffer'.nodes = last'.bnodes]_vars
FlushSkipWitness ==
    /\ last.op = "flush" /\ last.err = "nil" /\ ~last.force /\ ~last.full
    /\ buffer.layers > 0 /\ psid + buffer.layers = last.id

\* C7. A flush that proceeds with persistentStateID + layers # id fails with
\* an alignment error and writes nothing; a failed batch write leaves
\* persistentStateID, the stored nodes and the buffer as they were.
FlushFailureWritesNothing ==
    [][/\ (IsCall("flush") /\ (last'.force \/ last'.full)
              /\ psid + buffer.layers # last'.id) =>
            /\ last'.err = "alignment"
            /\ UNCHANGED <<psid, kv, buffer, clean, freezer>>
       /\ (IsCall("commit") /\ FlushReached(last') /\ (last'.force \/ last'.full)
              /\ psid + buffer.layers + 1 # last'.id) =>
            /\ last'.err = "alignment"
            /\ psid' = psid /\ kv' = kv /\ clean' = clean
            /\ buffer'.layers = buffer.layers + 1
            /\ buffer'.nodes = last'.bnodes
       /\ (IsCall("flush") /\ last'.err = "batchErr") =>
            UNCHANGED <<psid, kv, buffer>>
       /\ (IsCall("commit") /\ last'.err = "batchErr") =>
            /\ psid' = psid /\ kv' = kv
            /\ buffer'.layers = buffer.layers + 1
            /\ buffer'.nodes = last'.bnodes]_vars
FlushFailureWitness ==
    /\ last.op = "flush" /\ last.err = "alignment"
    /\ buffer.layers > 0 /\ \E k \in Keys : buffer.nodes[k] # None

\* C8 as stated: persistentStateID = n implies that the history record of
\* n is in the freezer.
HistoryBeforeStateOriginal ==
    (config.freezer /\ psid >= 1) => HasHistory(freezer, psid)
\* C8 as amended: whenever a step raises persistentStateID to n, the record
\* of n is in the freezer and synced; and persistentStateID always lies
\* between the history tail and head.
HistoryBeforeState ==
    /\ []((config.freezer /\ psid >= 1) =>
            (freezer.tail <= psid /\ psid <= FreezerHead(freezer)))
    /\ [][(config.freezer /\ psid' > psid) =>
            (HasHistory(freezer', psid') /\ freezer'.synced >= psid')]_vars
HistoryBeforeStateWitness ==
    /\ config.freezer /\ last.op = "commit" /\ last.flushed
    /\ psid = 2 /\ HasHistory(freezer, psid) /\ freezer.synced = 2

\* C9. revert fails with errUnexpectedHistory when the history's root is not
\* the disk layer's, and with errStateUnrecoverable when the disk layer's
\* id is 0; neither marks the layer stale nor changes buffer, store or
\* persistentStateID.
RevertRejects ==
    [][IsCall("revert") =>
          /\ last'.h.root # last'.pre.root => last'.err = "errUnexpectedHistory"
          /\ (last'.h.root = last'.pre.root /\ last'.pre.id = 0) =>
                last'.err = "errStateUnrecoverable"
          /\ last'.err \in {"errUnexpectedHistory", "errStateUnrecoverable"} =>
                UNCHANGED <<layers, buffer, psid, kv, clean, freezer, stateIDs>>]_vars
RevertRejectsWitness ==
    /\ last.op = "revert" /\ last.err = "errStateUnrecoverable"
    /\ last.pre.id = 0 /\ last.h.root = last.pre.root
    /\ buffer.layers > 0

\* C10. A successful revert marks its layer stale and returns a disk layer
\* at (h.parent, id - 1); with a non-empty buffer it undoes the transition
\* in the buffer and leaves persistentStateID alone, otherwise it writes the
\* reverse nodes and persistentStateID = id - 1 to the store.
RevertEffect ==
    [][(IsCall("revert") /\ last'.err = "nil") =>
          /\ layers'[last'.layer].stale
          /\ last'.new = Len(layers) + 1
          /\ layers'[last'.new] = [root |-> last'.h.parent,
                                   id |-> last'.pre.id - 1, stale |-> FALSE]
          /\ IF buffer.layers > 0
             THEN /\ psid' = psid /\ kv' = kv
                  /\ buffer'.layers = buffer.layers - 1
                  /\ IF buffer.layers = 1 THEN buffer' = EmptyBuffer
                     ELSE \A k \in Keys : last'.h.nodes[k] # None =>
                             buffer'.nodes[k] = last'.h.nodes[k]
             ELSE /\ psid' = last'.pre.id - 1
                  /\ kv' = WriteNodesKV(kv, last'.h.nodes)
                  /\ buffer' = buffer]_vars
RevertEffectWitness ==
    /\ last.op = "revert" /\ last.err = "nil"
    /\ last.pre.layers = 0 /\ last.pre.id = 1 /\ psid = 0
    /\ \E k \in Keys : last.h.nodes[k] # None

\* C11. buffer.revertTo on a buffer with layers = 0 fails with
\* errStateUnrecoverable and returns the buffer as it was: layers stays 0,
\* nodes and states are untouched. Checked for the shared buffer and for
\* every zero-layer buffer over the model's keys, against every history
\* record the freezer holds.
ZeroLayerBuffers ==
    {[layers |-> 0, nodes |-> n, accounts |-> a, storages |-> x] :
        n \in [Keys -> {None} \cup Blobs],
        a \in [Accts -> {None} \cup StBlobs],
        x \in [Slots -> {None} \cup StBlobs]}
RevertToRejectsEmpty ==
    \A i \in DOMAIN freezer.items :
        LET h == freezer.items[i]
        IN \A b \in ZeroLayerBuffers \cup {c \in {buffer} : c.layers = 0} :
              revertTo(b, h.nodes, h.accounts, h.storages)
                  = RevertToResult("errStateUnrecoverable", b)
RevertToRejectsEmptyWitness ==
    /\ buffer.layers = 0
    /\ \E i \in DOMAIN freezer.items :
          /\ \E k \in Keys : freezer.items[i].nodes[k] # None
          /\ revertTo(buffer, freezer.items[i].nodes, freezer.items[i].accounts,
                      freezer.items[i].storages).err = "errStateUnrecoverable"

\* C12. Lookup equivalence: on every live disk layer the lookup of a key is
\* the value obtained by applying the committed layers (the buffer) on top
\* of the persistent store, whatever the clean cache holds: a clean-cache
\* entry of a key absent from the buffer equals the stored value.
LookupEquivalence ==
    /\ \A l \in DOMAIN layers, k \in Keys :
          ~layers[l].stale => NodeResult(l, k).val = NodeBelow(k)
    /\ \A k \in Keys :
          (config.cleanCache /\ buffer.nodes[k] = None
              /\ clean[k] # None /\ clean[k] > 0) => clean[k] = kv[k]

\* C13. node() on a live disk layer reads the buffer, then the clean cache,
\* then the store: a buffer entry, a deletion marker included, is returned
\* as it is with location dirty; failing that a non-empty clean-cache entry;
\* failing that the stored value, which is back-filled into the clean cache
\* when it is not empty.
CleanHit(k) == config.cleanCache /\ clean[k] # None /\ clean[k] > 0
NodeReadPath ==
    /\ [](\A l \in DOMAIN layers, k \in Keys :
            ~layers[l].stale =>
                NodeResult(l, k) =
                    IF buffer.nodes[k] # None
                    THEN Result("nil", buffer.nodes[k], "dirty")
                    ELSE IF CleanHit(k) THEN Result("nil", clean[k], "clean")
                    ELSE Result("nil", kv[k], "disk"))
    /\ [][(calls' = calls /\ clean' # clean /\ clean' # EmptyMap(Keys)) =>
            /\ \E l \in DOMAIN layers : ~layers[l].stale
            /\ \E k \in Keys :
                  /\ buffer.nodes[k] = None /\ ~CleanHit(k) /\ kv[k] > 0
                  /\ clean' = [clean EXCEPT ![k] = kv[k]]]_vars
NodeReadPathWitness ==
    \E l \in DOMAIN layers, k \in Keys :
        /\ ~layers[l].stale
        /\ buffer.nodes[k] = 0 /\ kv[k] > 0 /\ CleanHit(k)
        /\ NodeResult(l, k) = Result("nil", 0, "dirty")

\* C14. account() and storage() on a live disk layer follow the read path
\* of node(): an account or slot that is absent from the buffer but was
\* persisted by a flush is still returned, without an error. An entry is
\* persisted when a transition with state id <= persistentStateID, as
\* recorded by its history, modified it.
PersistedAccount(a) ==
    \E i \in DOMAIN freezer.items :
        freezer.items[i].id <= psid /\ freezer.items[i].accounts[a] # None
PersistedSlot(x) ==
    \E i \in DOMAIN freezer.items :
        freezer.items[i].id <= psid /\ freezer.items[i].storages[x] # None
StateReadPath ==
    \A l \in DOMAIN layers :
        ~layers[l].stale =>
            /\ \A a \in Accts :
                  (buffer.accounts[a] = None /\ PersistedAccount(a)) =>
                      AccountResult(l, a).err = "nil"
            /\ \A x \in Slots :
                  (buffer.storages[x] = None /\ PersistedSlot(x)) =>
                      StorageResult(l, x).err = "nil"

\* C15. History retention: with a retention limit L # 0 a commit of state
\* id n overflows exactly when n - tail > L and then moves the history tail
\* to n - L; after every successful commit head - tail <= L; with L = 0
\* commit never moves the tail.
RetentionExceeded(n) ==
    config.StateHistory # 0 /\ n - freezer.tail > config.StateHistory
HistoryRetention ==
    [][(IsCall("commit") /\ config.freezer) =>
          /\ last'.err = "nil" =>
                /\ freezer'.tail = IF RetentionExceeded(last'.id)
                                   THEN last'.id - config.StateHistory
                                   ELSE freezer.tail
                /\ FreezerHead(freezer') = last'.id
                /\ config.StateHistory # 0 =>
                      FreezerHead(freezer') - freezer'.tail <= config.StateHistory
          /\ last'.err = "truncateErr" => RetentionExceeded(last'.id)
          /\ last'.err # "nil" => freezer'.tail = freezer.tail
          /\ config.StateHistory = 0 => freezer'.tail = freezer.tail]_vars
HistoryRetentionWitness ==
    /\ last.op = "commit" /\ last.err = "nil" /\ last.id = 3
    /\ config.StateHistory = 1
    /\ freezer.tail = 2 /\ FreezerHead(freezer) = 3

\* C16. The persisted state never falls behind the retained history: a
\* commit whose truncation would leave the oldest retained history id above
\* persistentStateID forces the flush, and persistentStateID >= history
\* tail in every state.
PersistedNotBehindHistory ==
    /\ [](config.freezer => psid >= freezer.tail)
    /\ [][(/\ IsCall("commit") /\ config.freezer /\ FlushReached(last')
           /\ RetentionExceeded(last'.id)
           /\ psid < last'.id - config.StateHistory + 1) =>
            /\ last'.force
            /\ last'.err = "nil" =>
                  (last'.flushed /\ psid' = last'.id /\ psid' >= freezer'.tail)]_vars
PersistedNotBehindHistoryWitness ==
    /\ last.op = "commit" /\ last.err = "nil" /\ last.flushed /\ ~last.full
    /\ config.StateHistory = 1 /\ last.pre.layers = 1
    /\ freezer.tail = 1 /\ psid = 2

\* C17. Single-block scenario: from the empty disk layer (id 0), cap(0)
\* commits the one diff layer (id 1) with force = false.
\* SingleBlockCapped: that commit has just returned without error.
SingleBlockCapped ==
    /\ calls = 1 /\ config.freezer
    /\ last.op = "commit" /\ last.err = "nil" /\ ~last.force
SingleBlockHistory ==
    /\ freezer.tail = 0 /\ Len(freezer.items) = 1
    /\ freezer.items[1].id = 1
    /\ freezer.items[1].parent = 0
    /\ freezer.items[1].root = layers[last.new].root
SingleBlockReadable ==
    /\ layers[last.new].id = 1 /\ ~layers[last.new].stale
    /\ \A k \in Keys : last.bnodes[k] # None =>
          NodeResult(last.new, k).val = last.bnodes[k]
CapDone == tree.done /\ tree.n > tree.d
CapFlattened ==
    /\ Len(tree.diffs) = tree.d
    /\ layers[Live].id = tree.base + (tree.n - tree.d)
    /\ ~layers[Live].stale
    /\ \A i \in 1..(Live - 1) :
          layers[i].stale /\ layers[i + 1].id = layers[i].id + 1
    /\ \A j \in DOMAIN tree.diffs : tree.diffs[j].id = layers[Live].id + j
Unlimited == config.freezer /\ config.StateHistory = 0
\* C18 as stated: and the history log holds one record per inserted diff.
CapDepthOriginal ==
    CapDone =>
        /\ CapFlattened
        /\ Unlimited =>
              Len(freezer.items) = layers[Live].id + Len(tree.diffs)
\* C18 as amended: and the history log, when no retention limit is set,
\* holds one record per flattened diff, none for the d diffs that remain.
CapDepth ==
    CapDone =>
        /\ CapFlattened
        /\ Unlimited =>
              /\ freezer.tail = 0
              /\ Len(freezer.items) = layers[Live].id
              /\ \A i \in DOMAIN freezer.items : freezer.items[i].id = i
CapDepthWitness ==
    /\ CapDone /\ Unlimited
    /\ tree.base = 0 /\ tree.n = 3 /\ tree.d = 1
    /\ Len(freezer.items) = 2 /\ Len(tree.diffs) = 1

\* C19. Buffer-full auto-flush: when the diff merged by a commit takes the
\* buffer's size over its limit, the flush runs without force,
\* persistentStateID advances to the committed state id and the buffer is
\* reset; while the size stays within the limit and force is false, the
\* commits pile up in the buffer and persistentStateID does not move.
AutoFlush ==
    [][(IsCall("commit") /\ FlushReached(last')) =>
          /\ last'.full =>
                /\ last'.err = "nil" /\ last'.flushed
                /\ psid' = last'.id
                /\ buffer' = EmptyBuffer
                /\ \A k \in Keys : last'.bnodes[k] # None =>
                      kv'[k] = last'.bnodes[k]
          /\ (~last'.full /\ ~last'.force) =>
                /\ last'.err = "nil" /\ ~last'.flushed
                /\ psid' = psid /\ kv' = kv
                /\ buffer'.layers = buffer.layers + 1
                /\ buffer'.nodes = last'.bnodes]_vars
AutoFlushWitness ==
    /\ last.op = "commit" /\ last.err = "nil"
    /\ last.full /\ ~last.force /\ last.flushed
    /\ last.pre.layers = 1 /\ psid = 2 /\ buffer.layers = 0

\* C20. History adjacency: after any sequence of commits, and of reverts
\* followed by new commits, the history ids are strictly increasing,
\* tail <= head, and of any two consecutive records the root of the first
\* is the parent root of the second.
HistoryAdjacency ==
    /\ freezer.tail <= FreezerHead(freezer)
    /\ \A i \in DOMAIN freezer.items : freezer.items[i].id > freezer.tail
    /\ \A i \in 1..(Len(freezer.items) - 1) :
          /\ freezer.items[i].id < freezer.items[i + 1].id
          /\ freezer.items[i].root = freezer.items[i + 1].parent
HistoryAdjacencyWitness ==
    /\ Len(freezer.items) >= 2
    /\ last.op = "commit" /\ last.err = "nil"
    /\ \E i \in DOMAIN layers :
          /\ i < last.layer
          /\ layers[i].id = layers[last.layer].id
          /\ layers[i].root # layers[last.layer].root

\* ------------------------------------------------------------ trie prefetcher
SubIn(p, w) == IF w[2] = 0 THEN p.fetchers[w[1]]
               ELSE p.fetchers[w[1]].paraChildren[w[2]]
\* the subfetcher w took the step that ends the turn of its current task
Loaded(w) == SubIn(pf, w).pc = "load" /\ SubIn(pf', w).pc # "load"
\* backend reads of key k made for trie id, by the subfetcher and its children
ReadsOfTrie(id, k) ==
    SumOver([i \in 0..Len(pf.fetchers[id].paraChildren) |->
                Reads(Sub(<<id, i>>), k)],
            0..Len(pf.fetchers[id].paraChildren))

\* C21 as stated: for a trie id no key is read from the backend twice, the
\* keys handed to the parallel children included.
IdempotenceOriginal ==
    \A id \in DOMAIN pf.fetchers : \A k \in Range(Big) : ReadsOfTrie(id, k) <= 1

\* C21: a subfetcher, be it the one of the trie or one of its parallel
\* children, reads no key from the backend twice: the turn of a key it has
\* seen adds one to its dups and reads nothing, the turn of any other key
\* reads it once and leaves dups alone.
Idempotence ==
    [][\A w \in Workers :
          LET a == SubIn(pf, w)
              b == SubIn(pf', w)
              k == Head(a.run)
          IN /\ \A x \in Range(b.loads) : Reads(b, x) = 1
             /\ Loaded(w) /\ k \in a.seen =>
                    b.dups = a.dups + 1 /\ b.loads = a.loads
             /\ Loaded(w) /\ k \notin a.seen =>
                    b.dups = a.dups /\ b.loads = Append(a.loads, k)]_vars
\* a subfetcher with parallel children has counted a duplicate
IdempotenceWitness ==
    \E id \in DOMAIN pf.fetchers :
        /\ pf.fetchers[id].dups > 0
        /\ pf.fetchers[id].paraChildren # <<>>
        /\ \E k \in Range(Big) : ReadsOfTrie(id, k) > 1


IsPCall(op) == pf'.ops = pf.ops + 1 /\ pf'.call.op = op
BeforeClose(p) == p.closed = 0

\* C22 as stated: before close, the keys a subfetcher has recorded as used
\* are among the keys it has recorded as seen.
UsedSubsetSeenOriginal ==
    BeforeClose(pf) => \A w \in Workers : Sub(w).used \subseteq Sub(w).seen

\* C22: before close, seen and used of a subfetcher only grow, and used()
\* on a trie adds to used exactly the keys it is given, loaded or not: so
\* the used keys that were seen when they were recorded stay in seen.
UsedSubsetSeen ==
    [][BeforeClose(pf') =>
          \A w \in Workers :
              LET a == SubIn(pf, w)
                  b == SubIn(pf', w)
              IN /\ a.seen \subseteq b.seen
                 /\ a.used \subseteq b.used
                 /\ b.used # a.used =>
                        /\ IsPCall("used")
                        /\ w = <<pf'.call.id, 0>>
                        /\ b.used = a.used \cup Range(pf'.call.keys)
                        /\ b.seen = a.seen]_vars
\* used() has recorded a key that is seen and a key that is not
UsedSubsetSeenWitness ==
    /\ BeforeClose(pf)
    /\ pf.call.op = "used"
    /\ \E w \in Workers :
          /\ Sub(w).used \cap Sub(w).seen # {}
          /\ Sub(w).used \ Sub(w).seen # {}


CloseReturned(p) == p.closeMainDoneChan /\ p.caller.pc # "closing"
AllTerminated(p) ==
    \A id \in DOMAIN p.fetchers :
        /\ p.fetchers[id].pc = "term"
        /\ \A i \in DOMAIN p.fetchers[id].paraChildren :
              p.fetchers[id].paraChildren[i].pc = "term"
AllLoads(p) ==
    [id \in DOMAIN p.fetchers |->
        <<p.fetchers[id].loads,
          [i \in DOMAIN p.fetchers[id].paraChildren |->
              p.fetchers[id].paraChildren[i].loads]>>]

\* C23: once close() on the active prefetcher has returned, every subfetcher
\* and every parallel child has terminated and no key is loaded any more;
\* the meters are published once; a second close() and a close() on an
\* inactive copy return in the same step, close no channel again and
\* publish nothing.
CloseWaitsForAll ==
    /\ [](CloseReturned(pf) => AllTerminated(pf))
    /\ [](pf.meters.published <= 1 /\ ~pf.panicked)
    /\ [][/\ CloseReturned(pf) => AllLoads(pf') = AllLoads(pf)
          /\ IsPCall("close") /\ (pf'.call.on = "copy" \/ pf.closed = 1) =>
                 /\ pf'.caller.pc = "ready"
                 /\ pf'.meters = pf.meters
                 /\ pf'.fetchers = pf.fetchers
                 /\ pf'.closeMainChan = pf.closeMainChan
                 /\ pf'.main = pf.main]_vars
\* a second close() has returned on a prefetcher whose closed subfetcher had
\* a parallel child
CloseWaitsForAllWitness ==
    /\ pf.call.op = "close" /\ pf.call.on = "active" /\ pf.call.ret = "none"
    /\ pf.ops = Len(CloseScript)
    /\ pf.env.script = CloseScript
    /\ \E id \in DOMAIN pf.fetchers :
          /\ pf.fetchers[id].paraChildren # <<>>
          /\ pf.fetchers[id].loads # <<>>


\* mainLoop takes the next message off prefetchChan
Receives == pf.main.pc = "select" /\ pf.prefetchChan # <<>>
               /\ pf'.prefetchChan = Tail(pf.prefetchChan)
\* peek returns to trie()
TrieReturns == pf.caller.pc = "peek" /\ pf'.caller.pc = "ready"
MaxLate(p) ==
    \A id \in DOMAIN p.fetchers :
        /\ p.fetchers[id].late <= 1
        /\ \A i \in DOMAIN p.fetchers[id].paraChildren :
              p.fetchers[id].paraChildren[i].late <= 1

\* C24 as stated, its last part: a prefetch issued for a trie after trie()
\* has returned for it schedules no key.
PreemptOriginal ==
    [][Receives /\ Head(pf.prefetchChan).after =>
          pf'.fetchers = pf.fetchers]_vars

\* C24: trie() returns a copy of the subfetcher's trie as it is when peek
\* is granted; it queues the abort of the subfetcher (unless the prefetcher
\* is being closed, which aborts it too), and the subfetcher and all its
\* children then terminate; a prefetch that mainLoop takes up once stop is
\* closed schedules no key, and a subfetcher whose stop is closed completes
\* at most the load it is in.
Preempt ==
    /\ [][/\ TrieReturns =>
                /\ pf'.call.trie = pf.fetchers[pf.caller.id].trie
                /\ pf'.call.ret = IF pf'.call.trie.nil THEN "nil" ELSE "trie"
          /\ IsPCall("trie") /\ pf'.caller.pc = "peek" =>
                \/ pf'.abortChan = Append(pf.abortChan, pf'.call.id)
                \/ pf.closeMainChan
          /\ Receives /\ HasFetcher(Head(pf.prefetchChan).id)
                /\ pf.fetchers[Head(pf.prefetchChan).id].stop =>
                pf'.fetchers = pf.fetchers]_vars
    /\ []MaxLate(pf)
    /\ (StorageTrie \in pf.claimed) ~>
           (StorageTrie \in DOMAIN pf.fetchers
                /\ Terminated(pf.fetchers[StorageTrie]))
\* after trie() the subfetcher and its child have terminated, and the
\* prefetch that followed was not scheduled
PreemptWitness ==
    /\ pf.env.script = PreemptScript
    /\ pf.dropped > 0
    /\ StorageTrie \in pf.claimed
    /\ pf.fetchers[StorageTrie].paraChildren # <<>>
    /\ Terminated(pf.fetchers[StorageTrie])


\* mainLoop makes its pendingSize test and the parallel scheduling
Parallels == pf.main.pc = "parallel" /\ pf'.main.pc = "select"
Ceil(n, d) == (n + d - 1) \div d
PendingOfChildren(sf) ==
    SumOver([i \in DOMAIN sf.paraChildren |-> sf.paraChildren[i].pendingSize],
            DOMAIN sf.paraChildren)

\* C25 as stated: over the threshold the children of the subfetcher number
\* at most pendingSize / capacity rounded up, and at or below the threshold
\* no child is spawned or fed.
ChildPoolOriginal ==
    [][Parallels =>
          LET a == pf.fetchers[pf.main.msg.id]
              b == pf'.fetchers[pf.main.msg.id]
          IN IF a.pendingSize > parallelTriePrefetchThreshold
             THEN Len(b.paraChildren) <=
                      Ceil(a.pendingSize, parallelTriePrefetchCapacity)
             ELSE b = a]_vars

\* C25: over the threshold the keys of the message all go to the children,
\* to those with room first, and at most len(keys) / capacity rounded up
\* children are spawned for the message; at or below the threshold no
\* child is spawned or fed.
ChildPool ==
    [][Parallels =>
          LET a == pf.fetchers[pf.main.msg.id]
              b == pf'.fetchers[pf.main.msg.id]
              keys == pf.main.msg.keys
          IN IF a.pendingSize > parallelTriePrefetchThreshold
             THEN /\ Len(b.paraChildren) - Len(a.paraChildren) <=
                         Ceil(Len(keys), parallelTriePrefetchCapacity)
                  /\ PendingOfChildren(b) = PendingOfChildren(a) + Len(keys)
                  /\ \A i \in DOMAIN b.paraChildren :
                        i > Len(a.paraChildren) =>
                            /\ b.paraChildren[i].pc = "open"
                            /\ b.paraChildren[i].tasks # <<>>
                  /\ [b EXCEPT !.paraChildren = a.paraChildren] = a
             ELSE b = a]_vars
\* a second child was spawned while the subfetcher had no more than
\* capacity keys pending
ChildPoolWitness ==
    \E id \in DOMAIN pf.fetchers :
        /\ Len(pf.fetchers[id].paraChildren) = 2
        /\ pf.main.pc = "select"
        /\ pf.fetchers[id].pendingSize > parallelTriePrefetchThreshold
        /\ pf.fetchers[id].pendingSize <= parallelTriePrefetchCapacity


\* the meters are published and trie() had found the subfetcher
HitReusePublished == pf.meters.published > 0 /\ StorageTrie \in pf.claimed

\* C26 as stated: the meters published at close are load = N, dup = 0 and
\* waste = 0 whatever the interleaving of the subfetcher with the caller.
HitReuseOriginal ==
    HitReusePublished =>
        /\ pf.meters.storageLoad = SlotsN
        /\ pf.meters.storageDup = 0
        /\ pf.meters.storageWaste = 0

\* C26: the meters published at close are dup = 0, waste = 0 and load = the
\* number of slots the subfetcher had loaded when it was preempted, at
\* most N; the slots left in its task queue are the skip meter.
HitReuse ==
    HitReusePublished =>
        /\ pf.meters.storageDup = 0
        /\ pf.meters.storageWaste = 0
        /\ pf.meters.storageLoad =
               Cardinality(Range(pf.fetchers[StorageTrie].loads))
        /\ pf.meters.storageLoad + pf.meters.storageSkip <= SlotsN
        /\ pf.meters.accountLoad = 0
\* all N slots were loaded before the preemption and are published as hits
HitReuseWitness ==
    /\ HitReusePublished
    /\ pf.meters.storageLoad = SlotsN
    /\ pf.fetchers[StorageTrie].used = Range(SlotsBatch)
    /\ pf.meters.storageWaste = 0


\* the subfetcher of the storage trie (0) and its first child (1)
Fetchers == 0..1
HasW(p, i) ==
    /\ StorageTrie \in DOMAIN p.fetchers
    /\ i <= Len(p.fetchers[StorageTrie].paraChildren)
\* the turns the loop of a subfetcher can take: its trie is opened or not,
\* it is woken on its queue, takes up a key and loads it, gives a key up to
\* a peek, runs out of keys, or sees stop
LoopTurns ==
    {<<"open", "idle">>, <<"open", "term">>, <<"idle", "run">>,
     <<"idle", "term">>, <<"run", "load">>, <<"run", "idle">>,
     <<"run", "term">>, <<"load", "run">>, <<"load", "idle">>}
ClosePublishes == pf.main.pc = "closing" /\ pf'.main.pc = "nilling"

\* C27 as stated, its last part: once term is closed the subfetcher loads
\* nothing and its seen set and dups counter never change.
StateMachineOriginal ==
    [][\A i \in Fetchers :
          HasW(pf, i) /\ SubIn(pf, <<StorageTrie, i>>).pc = "term" =>
              LET a == SubIn(pf, <<StorageTrie, i>>)
                  b == SubIn(pf', <<StorageTrie, i>>)
              IN b.loads = a.loads /\ b.dups = a.dups /\ b.seen = a.seen]_vars

\* C27: the loop of a subfetcher moves Idle -> Running on a wake and back
\* to Idle when its batch is drained; once stop is closed it takes up no
\* new key, completes at most the load it is in and terminates; when
\* terminated it stays so, loads nothing, and its dups and seen stay as
\* they are but for close, which deletes the used keys from seen.
StateMachine ==
    /\ [][\A i \in Fetchers : HasW(pf, i) =>
             LET a == SubIn(pf, <<StorageTrie, i>>)
                 b == SubIn(pf', <<StorageTrie, i>>)
             IN /\ b.pc = a.pc \/ <<a.pc, b.pc>> \in LoopTurns
                /\ a.pc = "idle" /\ b.pc = "run" => a.wake /\ a.tasks # <<>>
                /\ a.pc = "load" /\ b.pc = "idle" => b.run = <<>>
                /\ a.stop => b.stop /\ (b.pc = "load" => a.pc = "load")
                /\ a.pc = "term" =>
                      /\ b.pc = "term" /\ b.loads = a.loads
                      /\ b.dups = a.dups /\ b.trie = a.trie
                      /\ b.seen = IF ClosePublishes THEN a.seen \ a.used
                                  ELSE a.seen]_vars
    /\ []MaxLate(pf)
    /\ \A i \in Fetchers :
          (HasW(pf, i) /\ SubIn(pf, <<StorageTrie, i>>).stop)
              ~> (HasW(pf, i) /\ SubIn(pf, <<StorageTrie, i>>).pc = "term")
\* a terminated child that loaded a key after its stop was closed, beside
\* a terminated subfetcher from whose seen set close deleted the used keys
StateMachineWitness ==
    /\ HasW(pf, 1)
    /\ Terminated(pf.fetchers[StorageTrie])
    /\ pf.fetchers[StorageTrie].paraChildren[1].late = 1
    /\ pf.fetchers[StorageTrie].loads # <<>>
    /\ pf.fetchers[StorageTrie].seen = {}
    /\ pf.meters.published > 0


\* the subfetcher ended because its trie could not be opened
Failed(sf) == sf.pc = "term" /\ sf.trie.nil
OpenFails(id) == pf.fetchers[id].pc = "open" /\ pf'.fetchers[id].pc = "term"

\* C28: a subfetcher whose trie fails to open terminates without loading a
\* key; the failure changes nothing but that subfetcher, so that the
\* subfetchers of the other tries go on; prefetch returns nil all the
\* same; trie() for the failed id is served at once and returns nil.
FailureIsolation ==
    /\ [][\A id \in DOMAIN pf.fetchers :
             /\ OpenFails(id) => pf' = [pf EXCEPT !.fetchers[id].pc = "term"]
             /\ Failed(pf.fetchers[id]) => Failed(pf'.fetchers[id])
             /\ (TrieReturns /\ pf.caller.id = id /\ Failed(pf.fetchers[id])) =>
                   /\ pf'.call.ret = "nil" /\ pf'.call.trie.nil
                   /\ pf'.meters.deliveryMiss = pf.meters.deliveryMiss + 1]_vars
    /\ [](\A id \in DOMAIN pf.fetchers :
             Failed(pf.fetchers[id]) =>
                 /\ pf.fetchers[id].loads = <<>>
                 /\ pf.fetchers[id].seen = {}
                 /\ pf.fetchers[id].dups = 0)
    /\ []((pf.caller.pc = "peek" /\ Failed(pf.fetchers[pf.caller.id])) =>
             ENABLED Peek)
    /\ [](pf.call.op = "prefetch" => pf.call.ret = "nil")
\* trie() for the storage trie, which failed to open, returned nil, the
\* account trie has loaded a key since and was prefetched after the failure
FailureIsolationWitness ==
    /\ pf.call.op = "trie" /\ pf.call.id = StorageTrie /\ pf.call.ret = "nil"
    /\ StorageTrie \in DOMAIN pf.fetchers
    /\ Failed(pf.fetchers[StorageTrie])
    /\ pf.fetchers[StorageTrie].tasks # <<>>
    /\ AccountTrie \in DOMAIN pf.fetchers
    /\ pf.fetchers[AccountTrie].loads # <<>>


\* prefetch is called with a read while reads are off, or on a copy
TurnedDown ==
    /\ IsPCall("prefetch")
    /\ (pf'.call.read /\ pf.noreads) \/ pf'.call.on = "copy"

\* C29: prefetch of a read with reads off and prefetch on an inactive copy
\* leave the prefetcher as it is, with no message sent; once close() has
\* returned no subfetcher is created or changed whatever is prefetched,
\* and prefetch goes through even when prefetchChan is full; prefetch
\* returns nil.
PrefetchNoOp ==
    /\ [][TurnedDown =>
             [pf' EXCEPT !.ops = pf.ops, !.call = pf.call, !.bigs = pf.bigs]
                 = pf]_vars
    /\ [][CloseReturned(pf) =>
             /\ pf'.fetchers = pf.fetchers
             /\ IsPCall("prefetch") => pf'.caller.pc = "ready"]_vars
    /\ []((CloseReturned(pf) /\ pf.caller.pc = "ready"
              /\ pf.ops < pf.env.maxops
              /\ (pf.env.script # <<>> =>
                     pf.env.script[pf.ops + 1].op = "prefetch")) =>
             ENABLED DoPrefetch)
    /\ [](pf.call.op = "prefetch" => pf.call.ret = "nil")
\* every call is made: the read and the prefetch on the copy were turned
\* down, the prefetches after close filled prefetchChan and the last one
\* went through without a send, and there is no subfetcher
PrefetchNoOpWitness ==
    /\ pf.env.script = NoOpScript
    /\ pf.ops = Len(NoOpScript)
    /\ Len(pf.prefetchChan) = concurrentChanSize
    /\ ~pf.call.sent
    /\ DOMAIN pf.fetchers = {}
    /\ pf.main.pc = "exit"


\* caller c makes the load of AppendAncient, or its add
Loads(c) == pz.on[c].pc = "idle" /\ pz'.on[c] # pz.on[c]
Adds(c) == pz.on[c].pc = "add" /\ pz'.on[c].pc = "idle"
InOrder(p) == p.accepted = [i \in 1..Len(p.accepted) |-> p.offset + i - 1]

\* C30 as stated: also under concurrent callers no number is accepted
\* twice, and frozen is its initial value plus the number of distinct
\* accepted numbers.
AppendOrderOriginal ==
    /\ \A i, j \in DOMAIN pz.accepted :
          pz.accepted[i] = pz.accepted[j] => i = j
    /\ pz.frozen = pz.offset + Cardinality(Range(pz.accepted))

\* C30: a call passes only with number equal to frozen as it loads it, and
\* its add advances frozen by one; any other call is rejected with
\* errOutOrderInsertion and leaves frozen alone; frozen is its initial
\* value plus the number of accepted calls; and as long as no two calls
\* with the same number were in flight together the accepted numbers are
\* the initial value and its successors in order, none of them twice.
AppendOrder ==
    /\ [][\A c \in Appenders :
             /\ Loads(c) =>
                   /\ pz'.frozen = pz.frozen /\ pz'.accepted = pz.accepted
                   /\ IF pz'.on[c].number = pz.frozen
                      THEN pz'.on[c].pc = "add" /\ pz'.on[c].err = "nil"
                      ELSE /\ pz'.on[c].pc = "idle"
                           /\ pz'.on[c].err = errOutOrderInsertion
             /\ Adds(c) =>
                   /\ pz'.frozen = pz.frozen + 1
                   /\ pz'.accepted = Append(pz.accepted, pz.on[c].number)
                   /\ pz'.on[c].err = "nil"]_vars
    /\ [](pz.frozen = pz.offset + Len(pz.accepted))
    /\ [](~pz.raced => InOrder(pz))
\* with no race, two numbers were accepted in order, one from each
\* caller, and a call with a number out of order was rejected
AppendOrderWitness ==
    /\ ~pz.raced
    /\ pz.offset = 1
    /\ pz.accepted = <<1, 2>>
    /\ pz.on[1].number = 2 /\ pz.on[1].err = "nil" /\ pz.on[1].pc = "idle"
    /\ pz.on[2].number = 1 /\ pz.on[2].err = errOutOrderInsertion


\* C31. buffer.revertTo of a buffer of one layer leaves the empty buffer,
\* of size 0, with none of the reverse values in it; of a buffer of two
\* layers or more it takes one from layers and puts every reverse node
\* value in nodes, leaving the other nodes alone, so that the reverted keys
\* read their reverse values from the buffer. Checked of the revertTo that
\* revert makes and of revertTo on the buffer with every record of the
\* freezer.
RevertToMerges ==
    /\ [][(IsCall("revert") /\ last'.err = "nil" /\ buffer.layers > 0) =>
             IF buffer.layers = 1
             THEN /\ buffer' = EmptyBuffer
                  /\ size(buffer') = 0
                  /\ \A k \in Keys : buffer'.nodes[k] = None
             ELSE /\ buffer'.layers = buffer.layers - 1
                  /\ \A k \in Keys :
                        /\ buffer'.nodes[k] =
                              IF last'.h.nodes[k] # None THEN last'.h.nodes[k]
                              ELSE buffer.nodes[k]
                  /\ ~layers'[last'.new].stale]_vars
    /\ [](\A i \in DOMAIN freezer.items :
             LET h == freezer.items[i]
                 r == revertTo(buffer, h.nodes, h.accounts, h.storages)
             IN /\ buffer.layers = 1 => r = RevertToResult("nil", EmptyBuffer)
                /\ buffer.layers >= 2 =>
                      /\ r.err = "nil"
                      /\ r.buffer.layers = buffer.layers - 1
                      /\ \A k \in Keys : h.nodes[k] # None =>
                            r.buffer.nodes[k] = h.nodes[k])
\* a revert took a buffer of two layers to one and left a reverse value in it
RevertToMergesWitness ==
    /\ last.op = "revert" /\ last.err = "nil"
    /\ last.pre.layers = 2 /\ buffer.layers = 1
    /\ \E k \in Keys : last.h.nodes[k] # None /\ buffer.nodes[k] = last.h.nodes[k]


\* one disk layer is live, persistentStateID and the layers of the buffer
\* add up to its id, and a buffer of no layers holds nothing
LiveLayers == {l \in DOMAIN layers : ~layers[l].stale}
Consistent ==
    \E l \in DOMAIN layers :
        /\ LiveLayers = {l}
        /\ psid + buffer.layers = layers[l].id
        /\ buffer.layers = 0 => buffer = EmptyBuffer

\* C32. The database is opened consistent, and a commit of a bottom diff
\* layer of id disk.id + 1 or a revert, made on the live disk layer of a
\* consistent state, never fails the alignment check of flush and, when it
\* succeeds, leaves a consistent state: persistentStateID + buffer.layers
\* is the id of the live disk layer.
StateIDAligned ==
    /\ [](calls = 0 => Consistent)
    /\ [][(Consistent /\ ~last'.pre.stale
              /\ (IsCall("commit") \/ IsCall("revert"))) =>
             /\ last'.err # "alignment"
             /\ last'.err = "nil" =>
                   /\ Consistent'
                   /\ last'.new \in LiveLayers'
                   /\ IsCall("commit") => layers'[last'.new].id = last'.pre.id + 1
                   /\ IsCall("revert") => layers'[last'.new].id = last'.pre.id - 1]_vars
\* a commit that flushed, a commit that did not and a revert of it, all
\* successful, have left persistentStateID 1 under a live layer of id 1
StateIDAlignedWitness ==
    /\ Consistent
    /\ calls = 3 /\ last.op = "revert" /\ last.err = "nil"
    /\ last.pre.layers = 1 /\ psid = 1 /\ buffer.layers = 0
    /\ Len(layers) = 4


CommitFailed == IsCall("commit") /\ last'.err # "nil"

\* C33 as stated: a commit that returns an error leaves its disk layer as
\* stale or live as it was and the buffer unchanged.
CommitFailureOriginal ==
    [][CommitFailed =>
          /\ layers'[last'.layer].stale = last'.pre.stale
          /\ buffer' = buffer]_vars

\* C33: a commit that fails on the history write or on the freezer tail
\* leaves its disk layer, the buffer and the store as they were; a commit
\* that fails later, in flush or in the truncation of the history tail,
\* has marked its disk layer stale and merged the diff into the buffer,
\* which has one layer more unless flush went through and reset it; in
\* neither case is a new disk layer made.
CommitFailure ==
    [][CommitFailed =>
          /\ Len(layers') = Len(layers)
          /\ IF last'.err \in {"historyErr", "tailErr"}
             THEN /\ UNCHANGED <<layers, buffer, kv, psid, clean, stateIDs>>
                  /\ last'.err = "historyErr" => freezer' = freezer
             ELSE /\ layers' = [layers EXCEPT ![last'.layer].stale = TRUE]
                  /\ last'.err \in {"alignment", "syncErr", "batchErr",
                                    "truncateErr"}
                  /\ IF last'.flushed
                     THEN last'.err = "truncateErr" /\ buffer' = EmptyBuffer
                     ELSE /\ buffer'.layers = buffer.layers + 1
                          /\ buffer'.nodes = last'.bnodes
                          /\ psid' = psid /\ kv' = kv]_vars
\* a commit on the live disk layer failed in the batch write: no disk layer
\* is live and the buffer holds the diff
CommitFailureWitness ==
    /\ last.op = "commit" /\ last.err = "batchErr" /\ ~last.pre.stale
    /\ layers[last.layer].stale
    /\ \A l \in DOMAIN layers : layers[l].stale
    /\ buffer.layers = last.pre.layers + 1
    /\ \E k \in Keys : buffer.nodes[k] # None


Quiescent(sf) == sf.pc \in {"idle", "term"}
Processed(sf) == Len(sf.loads) + sf.dups

\* C34. Before close publishes the meters, a subfetcher at rest (idle or
\* terminated) accounts for every key scheduled on it: as many as it has
\* seen, counted as duplicates or still holds in tasks; and pendingSize is
\* the number of scheduled keys not processed yet, never below zero.
TaskConservation ==
    \A w \in Workers :
        LET sf == Sub(w)
        IN /\ sf.pendingSize >= 0
           /\ (Quiescent(sf) /\ ~pf.closeMainDoneChan) =>
                 /\ sf.sched = Cardinality(sf.seen) + sf.dups + Len(sf.tasks)
                 /\ sf.pendingSize = sf.sched - Processed(sf)


\* every key scheduled has been processed
Drained(sf) == sf.tasks = <<>> /\ sf.run = <<>> /\ sf.pendingSize = 0
\* the loop waits at its outer select with no wake to receive, and no
\* schedule is under way
Asleep(sf) == sf.pc = "idle" /\ ~sf.wake /\ ~sf.stop /\ pf.main.pc = "select"

\* C35. No wake-up is lost: a subfetcher that opened its trie and is not
\* stopped never waits without a wake while keys scheduled on it are
\* unprocessed, and the keys scheduled on it are eventually all
\* processed: tasks is empty and pendingSize is back to 0.
NoLostWake ==
    \A id \in DOMAIN pf.fetchers :
        Asleep(pf.fetchers[id]) => Drained(pf.fetchers[id])
\* the same as a progress property, under fair scheduling of the goroutines
NoLostWakeLive ==
    (StorageTrie \in DOMAIN pf.fetchers)
        ~> (StorageTrie \in DOMAIN pf.fetchers /\ Drained(pf.fetchers[StorageTrie]))


\* ---------------------------------------------------------------------
\* The hand-out of one message to the children: one batch over the child
\* capacity and one small batch, in either order, against running loops.
MaxFeeds == 2
OverCapacity == [i \in 1..(parallelTriePrefetchCapacity + 1) |-> i]
FeedEnv ==
    Env({StorageTrie}, {OverCapacity, <<1>>, <<1, 2>>}, {"active"}, {FALSE},
        {}, <<>>, MaxFeeds, 1)
InitFeed ==
    /\ PathdbIdle
    /\ pz = newPrunedFreezer(0)
    /\ pool = NoVotePool
    /\ pf = newTriePrefetcher(1, FALSE, FeedEnv)
SpecFeed == InitFeed /\ [][NextKids]_vars

\* the keys child i is given in a step of mainLoop, in which no loop runs
Handed(a, b, i) ==
    IF i <= Len(a.paraChildren)
    THEN SubSeq(b.paraChildren[i].tasks, Len(a.paraChildren[i].tasks) + 1,
                Len(b.paraChildren[i].tasks))
    ELSE b.paraChildren[i].tasks
\* the order in which scheduleParallel visits the children: the n existing
\* ones from index len(keys) % n round, then the new ones as appended
VisitOrder(n, m, len) ==
    [j \in 1..m |-> IF j <= n THEN ((len + j - 1) % n) + 1 ELSE j]
RECURSIVE HandedAlong(_, _, _, _)
HandedAlong(a, b, ord, j) ==
    IF j > Len(ord) THEN <<>>
    ELSE Handed(a, b, ord[j]) \o HandedAlong(a, b, ord, j + 1)

\* C36: scheduleParallel hands each key of the message to exactly one child,
\* existing or new, in order (the keys handed out, read child after child in
\* the order of the visit, are the message), an existing child at capacity
\* gets none, no call gives a child more than parallelTriePrefetchCapacity
\* keys, and the pendingSize of a child never exceeds that capacity.
KeyHandOut ==
    /\ [][Parallels =>
            LET a == pf.fetchers[pf.main.msg.id]
                b == pf'.fetchers[pf.main.msg.id]
                keys == pf.main.msg.keys
                n == Len(a.paraChildren)
                m == Len(b.paraChildren)
            IN a.pendingSize > parallelTriePrefetchThreshold =>
                 /\ m >= n
                 /\ HandedAlong(a, b, VisitOrder(n, m, Len(keys)), 1) = keys
                 /\ \A i \in 1..n :
                      /\ Len(b.paraChildren[i].tasks) >=
                             Len(a.paraChildren[i].tasks)
                      /\ a.paraChildren[i].pendingSize >=
                             parallelTriePrefetchCapacity
                           => b.paraChildren[i] = a.paraChildren[i]
                 /\ \A i \in 1..m :
                      Len(Handed(a, b, i)) <= parallelTriePrefetchCapacity]_vars
    /\ [](\A id \in DOMAIN pf.fetchers :
            \A i \in DOMAIN pf.fetchers[id].paraChildren :
                pf.fetchers[id].paraChildren[i].pendingSize <=
                    parallelTriePrefetchCapacity)
\* a message has been handed out past a child at capacity: the second child
\* holds keys of two messages while the first is full
KeyHandOutWitness ==
    /\ StorageTrie \in DOMAIN pf.fetchers
    /\ LET c == pf.fetchers[StorageTrie].paraChildren
       IN /\ Len(c) = 2
          /\ c[1].pendingSize = parallelTriePrefetchCapacity
          /\ c[2].sched = 3


\* the free calls of SpecPF under the same fair scheduling
SpecPFFair == SpecPF /\ Scheduling

\* C37. Deadlock freedom of the prefetcher API: under fair scheduling of
\* mainLoop and of the subfetcher loops every call of the single caller
\* returns, the peek of trie and of copy is served by the loop or by the
\* closed term channel, and mainLoop leaves each case it enters: its
\* schedule steps are always ready and its wait for the term channels at
\* close ends.
DeadlockFree ==
    /\ (pf.caller.pc # "ready") ~> (pf.caller.pc = "ready")
    /\ (pf.caller.pc \in {"peek", "copy"}) ~> ENABLED Peek
    /\ [](pf.main.pc = "parallel" => ENABLED MainParallel)
    /\ (pf.main.pc = "closing") ~> (pf.main.pc = "exit")
\* close has returned after waiting for a fetcher with children, and the
\* caller is not waiting on anything
DeadlockFreeWitness ==
    /\ pf.caller.pc = "ready"
    /\ pf.call.op = "close" /\ pf.call.ret = "none"
    /\ pf.closeMainDoneChan
    /\ StorageTrie \in DOMAIN pf.fetchers
    /\ pf.fetchers[StorageTrie].paraChildren # <<>>
    /\ Terminated(pf.fetchers[StorageTrie])


\* a step of TruncateHead by caller t
TruncLoads(t) == pz'.tr[t].k = pz.tr[t].k + 1
TruncStores(t) == pz.tr[t].pc = "store" /\ pz'.tr[t].pc = "write"
TruncWrites(t) == pz.tr[t].pc = "write" /\ pz'.tr[t].pc = "idle"

\* C38. TruncateHead(items) never raises frozen: when frozen is over items
\* it sets frozen to items and persists items, otherwise it changes
\* nothing; it returns the head it found and no error; frozen is lowered
\* only by TruncateHead and raised only by AppendAncient.
TruncateHeadLowers ==
    /\ [][\A t \in Truncators :
            /\ TruncLoads(t) =>
                  /\ pz'.frozen = pz.frozen /\ pz'.db = pz.db
                  /\ pz.frozen <= pz'.tr[t].items =>
                        /\ pz'.tr[t].pc = "idle"
                        /\ pz'.tr[t].ret = [head |-> pz.frozen, err |-> "nil"]
            /\ TruncStores(t) =>
                  pz'.frozen = pz.tr[t].items /\ pz'.frozen <= pz.frozen
            /\ TruncWrites(t) =>
                  /\ pz'.db = pz.tr[t].items /\ pz'.frozen = pz.frozen
                  /\ pz'.tr[t].ret = [head |-> pz.tr[t].preHead,
                                       err |-> "nil"]]_vars
    /\ [][/\ pz'.frozen < pz.frozen => \E t \in Truncators : TruncStores(t)
          /\ pz'.frozen > pz.frozen => \E c \in Appenders : InFlight(c)
                                        /\ ~InFlight(c)']_vars


CurLen(p, h) ==
    IF h \in DOMAIN p.curVotes THEN Len(p.curVotes[h].voteMessages) ELSE 0
FutureLen(p, h) ==
    IF h \in DOMAIN p.futureVotes THEN Len(p.futureVotes[h].voteMessages) ELSE 0
VoteHashes == {v.TargetHash : v \in pool.env.votes}
\* a step of putIntoVotePool that puts the vote, a step of
\* transferVotesFromFutureToCur
PutsVote ==
    /\ pool.pc = "select" /\ pool'.pc = "select"
    /\ pool'.receivedVotes # pool.receivedVotes
Transfers == pool.pc = "transfer" /\ pool'.pc = "select"

\* C39 as stated: curVotes never holds more than maxCurVoteAmountPerBlock
\* votes on one target block hash, and futureVotes never more than
\* maxFutureVoteAmountPerBlock.
DoSBoundOriginal ==
    \A h \in VoteHashes :
        /\ CurLen(pool, h) <= maxCurVoteAmountPerBlock
        /\ FutureLen(pool, h) <= maxFutureVoteAmountPerBlock
\* C39. futureVotes never holds more than maxFutureVoteAmountPerBlock votes
\* on one target block hash. curVotes is limited against incoming votes
\* only: a vote is put into a box of curVotes only while the box holds fewer
\* than maxCurVoteAmountPerBlock, and a transfer adds the votes of the
\* future box, at most maxFutureVoteAmountPerBlock, to whatever the box of
\* curVotes holds.
DoSBound ==
    /\ [](\A h \in VoteHashes :
              FutureLen(pool, h) <= maxFutureVoteAmountPerBlock)
    /\ [][\A h \in VoteHashes :
            /\ PutsVote /\ CurLen(pool', h) > CurLen(pool, h) =>
                  /\ CurLen(pool, h) < maxCurVoteAmountPerBlock
                  /\ CurLen(pool', h) = CurLen(pool, h) + 1
            /\ Transfers =>
                  /\ CurLen(pool', h) <= CurLen(pool, h) + FutureLen(pool, h)
                  /\ CurLen(pool', h) <=
                         CurLen(pool, h) + maxFutureVoteAmountPerBlock
            /\ ~PutsVote /\ ~Transfers =>
                  CurLen(pool', h) <= CurLen(pool, h)]_vars
\* a box of curVotes holds more than maxCurVoteAmountPerBlock votes, a full
\* future box having been transferred to it
DoSBoundWitness ==
    \E h \in VoteHashes :
        CurLen(pool, h) >= maxFutureVoteAmountPerBlock


\* Three blocks with one vote each, and one vote that names the first block
\* with another number: the heaps hold several entries, two with equal
\* numbers, and boxes are transferred, put back and pruned.
QueueTargets == <<3, 1, 1>>
QueueVotes ==
    {VoteEnvelope(h, QueueTargets[h], 1) : h \in DOMAIN QueueTargets}
        \cup {VoteEnvelope(1, 2, 2)}
InitQueue ==
    /\ OthersIdle
    /\ pool = NewVotePool(FirstNumber,
                          VoteEnv(QueueVotes, {FirstNumber, PastUpper, PastLower},
                                  {"all", "odd"}))
SpecQueue == InitQueue /\ [][NextVotes]_vars

PqHashes(pq) == [i \in DOMAIN pq |-> pq[i].TargetHash]
EachOnce(s) == \A i, j \in DOMAIN s : s[i] = s[j] => i = j
QueueOf(pq, m) == EachOnce(PqHashes(pq)) /\ Range(PqHashes(pq)) = DOMAIN m

\* C40. Between the operations of the pool, put, prune and transfer from
\* future, which hold the lock while they run, the target hashes in
\* curVotesPq are the keys of curVotes, each once, and those in
\* futureVotesPq are the keys of futureVotes, each once.
QueueMapConsistency ==
    /\ QueueOf(pool.curVotesPq, pool.curVotes)
    /\ QueueOf(pool.futureVotesPq, pool.futureVotes)
\* the chain is past the prune limit, boxes have been transferred to
\* curVotes after the prune, and one is still in futureVotes
QueueMapConsistencyWitness ==
    /\ pool.head = PastLower
    /\ Len(pool.curVotesPq) >= 2
    /\ Len(pool.futureVotesPq) >= 1
    /\ pool.pc = "select"

====
